---- MODULE Spec2Model ----
(***************************************************************************)
(* Verification model of the Pentomino-Solver repository: the geometry and *)
(* piece catalog (utils/geometry.ts, utils/pentomino-definitions.ts), the  *)
(* board operations (utils/board-utils.ts), the solution cache             *)
(* (solvers/SolutionCache.ts) and the two JavaScript search engines        *)
(* (BacktrackingSolver, DancingLinksSolver).                               *)
(*                                                                         *)
(* Scale: the engines are exercised on a catalog of two of the twelve      *)
(* pentominoes (getAllPentominoTypes below), so that a board is feasible   *)
(* with 2 * 5 = 10 empty cells where the program needs 12 * 5 = 60.  The   *)
(* literal 60 of the source is RequiredCells.  Geometry is modelled for    *)
(* all twelve base shapes.                                                 *)
(***************************************************************************)
EXTENDS Integers, Sequences, FiniteSets, TLC

(***************************************************************************)
(* Generic helpers for the array methods the source uses.                  *)
(***************************************************************************)
Pt(px, py) == [x |-> px, y |-> py]

MinOf(S) == CHOOSE m \in S : \A n \in S : m <= n
MaxOf(S) == CHOOSE m \in S : \A n \in S : m >= n

Range(s) == {s[i] : i \in 1..Len(s)}

\* Array.prototype.map
RECURSIVE MapSeq(_, _)
MapSeq(F(_), s) == IF s = <<>> THEN <<>> ELSE <<F(Head(s))>> \o MapSeq(F, Tail(s))

\* Array.prototype.sort with a "less or equal" comparator: a stable insertion sort
RECURSIVE InsertSorted(_, _, _)
InsertSorted(Leq(_, _), e, s) ==
  IF s = <<>> THEN <<e>>
  ELSE IF Leq(s[Len(s)], e) THEN Append(s, e)
  ELSE Append(InsertSorted(Leq, e, SubSeq(s, 1, Len(s) - 1)), s[Len(s)])

RECURSIVE StableSort(_, _)
StableSort(Leq(_, _), s) ==
  IF s = <<>> THEN <<>>
  ELSE InsertSorted(Leq, s[Len(s)], StableSort(Leq, SubSeq(s, 1, Len(s) - 1)))

(***************************************************************************)
(* utils/geometry.ts                                                       *)
(***************************************************************************)
addPoints(a, b) == Pt(a.x + b.x, a.y + b.y)

isPointInBounds(point, bounds) ==
  point.x >= 0 /\ point.x < bounds.width /\ point.y >= 0 /\ point.y < bounds.height

rotatePoint90CW(point) == Pt(point.y, 0 - point.x)

flipPointHorizontal(point) == Pt(0 - point.x, point.y)

\* a normalizeShape that leaves the cells where they are
normalizeShapeUnmoved(cells) ==
  IF Len(cells) = 0 THEN [cells |-> <<>>, bounds |-> [width |-> 0, height |-> 0]]
  ELSE LET minX == MinOf({cells[i].x : i \in 1..Len(cells)})
           minY == MinOf({cells[i].y : i \in 1..Len(cells)})
           maxX == MaxOf({cells[i].x : i \in 1..Len(cells)})
           maxY == MaxOf({cells[i].y : i \in 1..Len(cells)})
       IN [cells  |-> cells,
           bounds |-> [width |-> maxX - minX + 1, height |-> maxY - minY + 1]]

\* a normalizeShape that also mirrors the cells inside the bounding box
normalizeShapeMirrored(cells) ==
  IF Len(cells) = 0 THEN [cells |-> <<>>, bounds |-> [width |-> 0, height |-> 0]]
  ELSE LET minX == MinOf({cells[i].x : i \in 1..Len(cells)})
           minY == MinOf({cells[i].y : i \in 1..Len(cells)})
           maxX == MaxOf({cells[i].x : i \in 1..Len(cells)})
           maxY == MaxOf({cells[i].y : i \in 1..Len(cells)})
       IN [cells  |-> [i \in 1..Len(cells) |-> Pt(maxX - cells[i].x, cells[i].y - minY)],
           bounds |-> [width |-> maxX - minX + 1, height |-> maxY - minY + 1]]

normalizeShape(cells) ==
  IF Len(cells) = 0 THEN [cells |-> <<>>, bounds |-> [width |-> 0, height |-> 0]]
  ELSE LET minX == MinOf({cells[i].x : i \in 1..Len(cells)})
           minY == MinOf({cells[i].y : i \in 1..Len(cells)})
           maxX == MaxOf({cells[i].x : i \in 1..Len(cells)})
           maxY == MaxOf({cells[i].y : i \in 1..Len(cells)})
       IN [cells  |-> [i \in 1..Len(cells) |-> Pt(cells[i].x - minX, cells[i].y - minY)],
           bounds |-> [width |-> maxX - minX + 1, height |-> maxY - minY + 1]]

rotateShape90CW(shape) == normalizeShape(MapSeq(rotatePoint90CW, shape.cells))

flipShapeHorizontal(shape) == normalizeShape(MapSeq(flipPointHorizontal, shape.cells))

\* the comparator (a, b) => a.y - b.y || a.x - b.x
CellLeq(a, b) == a.y < b.y \/ (a.y = b.y /\ a.x <= b.x)

\* the key "x,y|x,y|..." of the sorted cells; the sorted cell list stands for the string
shapeToString(shape) == StableSort(CellLeq, shape.cells)

\* an addVariant that keeps no set of seen keys
addVariantUnseen(variants, shape) == Append(variants, shape)

\* the addVariant helper: push the shape unless its key has been seen
addVariant(variants, shape) ==
  IF \E i \in 1..Len(variants) : shapeToString(variants[i]) = shapeToString(shape)
  THEN variants ELSE Append(variants, shape)

\* current = rotateShape90CW(current); addVariant(current), n times
RECURSIVE addRotations(_, _, _)
addRotations(variants, current, n) ==
  IF n = 0 THEN variants
  ELSE LET push(next) == addRotations(addVariant(variants, next), next, n - 1)
       IN push(rotateShape90CW(current))

generateShapeVariants(baseShape) ==
  LET rotations(variants, shape) == addRotations(addVariant(variants, shape), shape, 3)
  IN rotations(rotations(<<>>, baseShape), flipShapeHorizontal(baseShape))

getPieceCells(shape, position) ==
  [i \in 1..Len(shape.cells) |-> addPoints(shape.cells[i], position)]

(***************************************************************************)
(* utils/pentomino-definitions.ts                                          *)
(***************************************************************************)
PentominoTypes == <<"F", "I", "L", "N", "P", "T", "U", "V", "W", "X", "Y", "Z">>

\* the coordinate lists BASE_SHAPES is made of
baseCells ==
  [F |-> <<Pt(1,0), Pt(2,0), Pt(0,1), Pt(1,1), Pt(1,2)>>,
   I |-> <<Pt(0,0), Pt(1,0), Pt(2,0), Pt(3,0), Pt(4,0)>>,
   L |-> <<Pt(0,0), Pt(0,1), Pt(0,2), Pt(0,3), Pt(1,3)>>,
   N |-> <<Pt(1,0), Pt(0,1), Pt(1,1), Pt(0,2), Pt(0,3)>>,
   P |-> <<Pt(0,0), Pt(1,0), Pt(0,1), Pt(1,1), Pt(0,2)>>,
   T |-> <<Pt(0,0), Pt(1,0), Pt(2,0), Pt(1,1), Pt(1,2)>>,
   U |-> <<Pt(0,0), Pt(2,0), Pt(0,1), Pt(1,1), Pt(2,1)>>,
   V |-> <<Pt(0,0), Pt(0,1), Pt(0,2), Pt(1,2), Pt(2,2)>>,
   W |-> <<Pt(0,0), Pt(0,1), Pt(1,1), Pt(1,2), Pt(2,2)>>,
   X |-> <<Pt(1,0), Pt(0,1), Pt(1,1), Pt(2,1), Pt(1,2)>>,
   Y |-> <<Pt(1,0), Pt(0,1), Pt(1,1), Pt(1,2), Pt(1,3)>>,
   Z |-> <<Pt(0,0), Pt(1,0), Pt(1,1), Pt(1,2), Pt(2,2)>>]

BASE_SHAPES == [t \in Range(PentominoTypes) |-> normalizeShape(baseCells[t])]

\* the loop body of createPentominoDefinitions
createPentominoDefinition(type, baseShape) ==
  [type |-> type, baseShape |-> baseShape, variants |-> generateShapeVariants(baseShape)]

PENTOMINO_DEFINITIONS ==
  [t \in Range(PentominoTypes) |-> createPentominoDefinition(t, BASE_SHAPES[t])]

getPentominoDefinition(type) == PENTOMINO_DEFINITIONS[type]

\* The catalog the engines iterate over (Object.keys order), scaled to two pieces.
getAllPentominoTypes == <<"L", "P">>

\* cells each piece covers
PieceCells == 5

\* the source's literal 60 (12 pieces x 5 cells), at the scale of the catalog
RequiredCells == Len(getAllPentominoTypes) * PieceCells

getPentominoVariant(type, variantIndex) ==
  LET pick(definition) ==
        IF variantIndex \in 0..(Len(definition.variants) - 1)
        THEN definition.variants[variantIndex + 1] ELSE definition.baseShape
  IN pick(getPentominoDefinition(type))

getPentominoVariantCount(type) == Len(getPentominoDefinition(type).variants)

origin == Pt(0, 0)

createPentominoPiece(type, id) ==
  [id |-> id, type |-> type, position |-> origin, variantIndex |-> 0, isPlaced |-> FALSE]

(***************************************************************************)
(* utils/board-utils.ts                                                    *)
(***************************************************************************)
undefined == "undefined"

emptyCell == [state |-> "empty", pieceId |-> undefined, pieceType |-> undefined]

blockedCell == [state |-> "blocked", pieceId |-> undefined, pieceType |-> undefined]

\* the loop "for (const blockedCell of config.blockedCells)" of createBoard
RECURSIVE markBlockedCells(_, _, _)
markBlockedCells(board, blockedCells, i) ==
  IF i > Len(blockedCells) THEN board
  ELSE LET b == blockedCells[i]
       IN IF isPointInBounds(b, board.config)
          THEN markBlockedCells([board EXCEPT !.cells[b.y][b.x] = blockedCell,
                                              !.emptyCellCount = @ - 1], blockedCells, i + 1)
          ELSE markBlockedCells(board, blockedCells, i + 1)

createBoard(config) ==
  markBlockedCells([config |-> config,
                    cells |-> [y \in 0..(config.height - 1) |->
                                 [x \in 0..(config.width - 1) |-> emptyCell]],
                    emptyCellCount |-> config.width * config.height],
                   config.blockedCells, 1)

\* a fresh object with copies of the config, of every cell and of the count
cloneBoardCopy(board) ==
  [config |-> [width |-> board.config.width, height |-> board.config.height,
               blockedCells |-> board.config.blockedCells],
   cells |-> [y \in DOMAIN board.cells |-> [x \in DOMAIN board.cells[y] |-> board.cells[y][x]]],
   emptyCellCount |-> board.emptyCellCount]

isValidPosition(board, position) == isPointInBounds(position, board.config)

null == "null"

getCellState(board, position) ==
  IF ~isValidPosition(board, position) THEN null
  ELSE board.cells[position.y][position.x].state

\* the board after setCellState (the function's boolean result is isValidPosition)
setCellState(board, position, state, pieceId, pieceType) ==
  IF ~isValidPosition(board, position) THEN board
  ELSE LET oldState == board.cells[position.y][position.x].state
           count == IF oldState = "empty" /\ state # "empty" THEN board.emptyCellCount - 1
                    ELSE IF oldState # "empty" /\ state = "empty" THEN board.emptyCellCount + 1
                    ELSE board.emptyCellCount
       IN [board EXCEPT !.cells[position.y][position.x] =
                           [state |-> state, pieceId |-> pieceId, pieceType |-> pieceType],
                        !.emptyCellCount = count]

canPlacePiece(board, piece, position, variantIndex) ==
  LET allEmpty(pieceCells) ==
        \A i \in 1..Len(pieceCells) :
           /\ isValidPosition(board, pieceCells[i])
           /\ getCellState(board, pieceCells[i]) = "empty"
  IN allEmpty(getPieceCells(getPentominoVariant(piece.type, variantIndex), position))

\* the loop "for (const cell of pieceCells) setCellState(board, cell, 'occupied', ...)"
RECURSIVE occupyCells(_, _, _, _)
occupyCells(board, piece, pieceCells, i) ==
  IF i > Len(pieceCells) THEN board
  ELSE occupyCells(setCellState(board, pieceCells[i], "occupied", piece.id, piece.type),
                   piece, pieceCells, i + 1)

\* a placePiece that sets its cells without asking canPlacePiece
placePieceUnchecked(board, piece, position, variantIndex) ==
  occupyCells(board, piece,
              getPieceCells(getPentominoVariant(piece.type, variantIndex), position), 1)

\* placePiece returns false exactly when canPlacePiece is false; this is the board after it
placePiece(board, piece, position, variantIndex) ==
  IF ~canPlacePiece(board, piece, position, variantIndex) THEN board
  ELSE occupyCells(board, piece,
                   getPieceCells(getPentominoVariant(piece.type, variantIndex), position), 1)

\* the loop of removePiece: empty the cells that are in bounds and hold this piece id
RECURSIVE releaseCells(_, _, _, _)
releaseCells(board, piece, pieceCells, i) ==
  IF i > Len(pieceCells) THEN board
  ELSE LET cell == pieceCells[i]
       IN IF isValidPosition(board, cell) /\ board.cells[cell.y][cell.x].pieceId = piece.id
          THEN releaseCells(setCellState(board, cell, "empty", undefined, undefined),
                            piece, pieceCells, i + 1)
          ELSE releaseCells(board, piece, pieceCells, i + 1)

\* a removePiece that looks for the cells of the base orientation
removePieceBaseVariant(board, piece) ==
  IF ~piece.isPlaced THEN board
  ELSE releaseCells(board, piece,
                    getPieceCells(getPentominoVariant(piece.type, 0), piece.position), 1)

removePiece(board, piece) ==
  IF ~piece.isPlaced THEN board
  ELSE releaseCells(board, piece,
                    getPieceCells(getPentominoVariant(piece.type, piece.variantIndex),
                                  piece.position), 1)

isBoardComplete(board) == board.emptyCellCount = 0

\* the board after resetBoard: every cell empty, the blocked cells that are in bounds
\* restored, the count recomputed from the length of config.blockedCells
resetBoard(board) ==
  [config |-> board.config,
   cells |-> [y \in DOMAIN board.cells |->
                [x \in DOMAIN board.cells[y] |->
                   IF \E i \in 1..Len(board.config.blockedCells) :
                         board.config.blockedCells[i] = Pt(x, y)
                   THEN blockedCell ELSE emptyCell]],
   emptyCellCount |-> board.config.width * board.config.height
                        - Len(board.config.blockedCells)]

\* the double loop counting cells whose state is 'empty' (isLikelySolvable,
\* canRemainingPiecesFit) and listing them row-major (getEmptyCells, buildMatrix)
getEmptyCells(board) ==
  LET w == board.config.width
      h == board.config.height
      all == [k \in 1..(w * h) |-> Pt((k - 1) % w, (k - 1) \div w)]
  IN SelectSeq(all, LAMBDA p : board.cells[p.y][p.x].state = "empty")

(***************************************************************************)
(* solvers/SolutionCache.ts.  The Map is kept as the sequence of its       *)
(* entries in insertion order.                                             *)
(***************************************************************************)
maxCacheSize == 50

\* maxAgeMinutes * 60 * 1000 with maxAgeMinutes = 15
maxAge == 15 * 60 * 1000

\* string comparison of the keys "x,y" of two cells (single-digit coordinates)
CellKeyLeq(a, b) == a.x < b.x \/ (a.x = b.x /\ a.y <= b.y)

\* `${width}x${height}` followed by the sorted "x,y" keys of config.blockedCells
hashBoard(board) ==
  <<board.config.width, board.config.height, StableSort(CellKeyLeq, board.config.blockedCells)>>

StrLeq(a, b) == \E i, j \in 1..Len(PentominoTypes) :
                   PentominoTypes[i] = a /\ PentominoTypes[j] = b /\ i <= j

generateCacheKey(board, availablePieces) ==
  <<hashBoard(board), StableSort(StrLeq, availablePieces)>>

cacheIndex(entries, key) ==
  IF \E i \in 1..Len(entries) : entries[i].key = key
  THEN CHOOSE i \in 1..Len(entries) : entries[i].key = key
  ELSE 0

cacheDelete(entries, key) == SelectSeq(entries, LAMBDA e : e.key # key)

\* a get that returns what is stored whatever its age
cacheGetAnyAge(entries, board, availablePieces, time) ==
  LET key == generateCacheKey(board, availablePieces)
      i == cacheIndex(entries, key)
  IN IF i = 0 THEN [value |-> null, cache |-> entries]
     ELSE [value |-> entries[i].solutions,
           cache |-> [entries EXCEPT ![i].hitCount = @ + 1]]

\* SolutionCache.get: the solutions returned (null when absent or expired) and the cache after
cacheGet(entries, board, availablePieces, time) ==
  LET key == generateCacheKey(board, availablePieces)
      i == cacheIndex(entries, key)
  IN IF i = 0 THEN [value |-> null, cache |-> entries]
     ELSE IF time - entries[i].timestamp > maxAge
          THEN [value |-> null, cache |-> cacheDelete(entries, key)]
          ELSE [value |-> entries[i].solutions,
                cache |-> [entries EXCEPT ![i].hitCount = @ + 1]]

HitLeq(a, b) == a.hitCount <= b.hitCount

\* Math.ceil(this.maxCacheSize * 0.2)
toRemove == (maxCacheSize + 4) \div 5

\* a cleanup that removes the expired entries only
cleanupExpiredOnly(entries, time) ==
  SelectSeq(entries, LAMBDA e : ~(time - e.timestamp > maxAge))

cleanup(entries, time) ==
  LET fresh == SelectSeq(entries, LAMBDA e : ~(time - e.timestamp > maxAge))
  IN IF Len(fresh) >= maxCacheSize
     THEN LET sortedEntries == StableSort(HitLeq, fresh)
              n == IF toRemove < Len(sortedEntries) THEN toRemove ELSE Len(sortedEntries)
              removed == {sortedEntries[i].key : i \in 1..n}
          IN SelectSeq(fresh, LAMBDA e : e.key \notin removed)
     ELSE fresh

\* SolutionCache.set
cacheSet(entries, board, availablePieces, sols, time) ==
  LET key == generateCacheKey(board, availablePieces)
      cleaned == IF Len(entries) >= maxCacheSize THEN cleanup(entries, time) ELSE entries
      entry == [key |-> key, solutions |-> sols, timestamp |-> time, hitCount |-> 0]
      i == cacheIndex(cleaned, key)
  IN IF i = 0 THEN Append(cleaned, entry) ELSE [cleaned EXCEPT ![i] = entry]

\* an isLikelySolvable that checks the dimensions only
isLikelySolvableAnyCount(board, availablePieces) ==
  IF board.config.width < 3 \/ board.config.height < 3 THEN FALSE ELSE TRUE

isLikelySolvable(board, availablePieces) ==
  LET emptyCells == Len(getEmptyCells(board))
      requiredCells == Len(availablePieces) * 5
      minDimension == IF board.config.width < board.config.height
                      THEN board.config.width ELSE board.config.height
  IN IF emptyCells # requiredCells THEN FALSE
     ELSE IF minDimension < 3 THEN FALSE
     ELSE TRUE

(***************************************************************************)
(* State.  One solver instance (of either class) lives through a           *)
(* behaviour; its caller passes boards to solve(), may call stop(), and    *)
(* time passes.                                                            *)
(***************************************************************************)
VARIABLES
  now,            \* Date.now()
  heap,           \* the board objects, by reference
  engine,         \* the class of the instance: "backtracking" or "dancing-links"
  config,         \* this.config
  startTime,      \* this.startTime
  solutions,      \* this.solutions
  steps,          \* this.steps
  stepsExplored,  \* this.stepsExplored
  shouldStop,     \* this.shouldStop
  cache,          \* this.cache (BacktrackingSolver)
  matrix,         \* this.header, this.columns and the nodes linked to them (DancingLinksSolver)
  rowToPlacement, \* this.rowToPlacement (DancingLinksSolver)
  pieces,         \* the pieces array of BacktrackingSolver.solve
  solution,       \* the solution array of DancingLinksSolver.solve
  workingBoard,   \* the reference solve() holds to the board it searches on
  stack,          \* the frames of backtrack() / search() in progress
  pc,             \* where the solve() in flight stands
  result,         \* what the promise of the last solve() settled with
  solveCount      \* number of solve() calls so far

\* the fields of the solver instance and the position of its solve()
solverVars ==
  <<now, heap, engine, config, startTime, solutions, steps, stepsExplored, shouldStop,
    cache, matrix, rowToPlacement, pieces, solution, workingBoard, stack, pc, result,
    solveCount>>

\* Callers of the geometry and board modules, outside any solver: a shape that is being
\* transformed, and a board with the pieces a user lays on it.
VARIABLES
  geoType,        \* the PentominoType the shape is of
  geoShape,       \* a PentominoShape
  geoVariants,    \* the last result of generateShapeVariants
  userBoard,      \* a Board
  userPieces,     \* the PentominoPiece objects of the user, by type
  userOps         \* the board-utils functions called on userBoard so far

utilVars == <<geoType, geoShape, geoVariants, userBoard, userPieces, userOps>>

\* The objects of the application around the solvers: the useSolver hook with the solvers
\* it created and the timers it set, a ProgressiveSolver, and a WebAssemblySolver.
VARIABLES
  hook,           \* the state and the refs of useSolver
  searches,       \* the solvers useSolver created, with the state of their solve()
  timers,         \* the setInterval timers of useSolver that are not cleared
  progressive,    \* the fields of a ProgressiveSolver and of its startProgressive()
  wasm            \* the fields of a WebAssemblySolver and of its C++ PentominoSolver

appVars == <<hook, searches, timers, progressive, wasm>>

vars == <<solverVars, utilVars, appVars>>

\* references into heap: the caller's board and the solver's working board
CallerRef == "board"
WorkRef == "workingBoard"

\* a cloneBoard that hands back the board it was given
cloneBoardAlias(hp, ref) == [heap |-> hp, ref |-> ref]

\* cloneBoard returns a reference to a fresh copy
cloneBoard(hp, ref) ==
  [heap |-> [hp EXCEPT ![WorkRef] = cloneBoardCopy(hp[ref])], ref |-> WorkRef]

\* the working copy is garbage once solve() has returned
dropClone(hp, ref) ==
  IF ref = CallerRef THEN hp
  ELSE [hp EXCEPT ![ref] = createBoard([width |-> 0, height |-> 0, blockedCells |-> <<>>])]

(***************************************************************************)
(* BacktrackingSolver (solvers/WebAssemblySolver.ts, second class)         *)
(***************************************************************************)
\* the ids `${type}-solver` of the pieces solve() creates
solverPieceId ==
  [F |-> "F-solver", I |-> "I-solver", L |-> "L-solver", N |-> "N-solver",
   P |-> "P-solver", T |-> "T-solver", U |-> "U-solver", V |-> "V-solver",
   W |-> "W-solver", X |-> "X-solver", Y |-> "Y-solver", Z |-> "Z-solver"]

pieceConstraints ==
  [I |-> 1, L |-> 2, N |-> 3, Y |-> 4, P |-> 5, U |-> 6,
   V |-> 7, W |-> 8, Z |-> 9, F |-> 10, T |-> 11, X |-> 12]

\* comparator scoreB - scoreA <= 0
ConstraintLeq(a, b) == pieceConstraints[b.type] <= pieceConstraints[a.type]

optimizePieceOrder(ps) == StableSort(ConstraintLeq, ps)

canRemainingPiecesFit(board, ps, startIndex) ==
  LET emptyCells == Len(getEmptyCells(board))
      cellsNeeded == 5 * (Len(ps) - startIndex)
  IN emptyCells >= cellsNeeded

directions == <<Pt(-1, 0), Pt(1, 0), Pt(0, -1), Pt(0, 1)>>

RECURSIVE SumSeq(_)
SumSeq(s) == IF s = <<>> THEN 0 ELSE Head(s) + SumSeq(Tail(s))

calculateConstraintScore(board, position) ==
  LET dirScore(dir) ==
        LET adj == addPoints(position, dir)
        IN IF isPointInBounds(adj, board.config)
           THEN (IF board.cells[adj.y][adj.x].state # "empty" THEN 10 ELSE 0)
           ELSE 5
  IN SumSeq(MapSeq(dirScore, directions))
     + (board.config.height - position.y) + (board.config.width - position.x)

searchRadius == 3

\* comparator b.score - a.score <= 0
ScoreLeq(a, b) == b.score <= a.score

getOptimalPositions(board) ==
  LET empties == getEmptyCells(board)
  IN IF empties = <<>> THEN <<>>
     ELSE LET firstEmpty == empties[1]
              y0 == IF firstEmpty.y - searchRadius > 0 THEN firstEmpty.y - searchRadius ELSE 0
              y1 == IF board.config.height - 1 < firstEmpty.y + searchRadius
                    THEN board.config.height - 1 ELSE firstEmpty.y + searchRadius
              x0 == IF firstEmpty.x - searchRadius > 0 THEN firstEmpty.x - searchRadius ELSE 0
              x1 == IF board.config.width - 1 < firstEmpty.x + searchRadius
                    THEN board.config.width - 1 ELSE firstEmpty.x + searchRadius
              nx == x1 - x0 + 1
              ny == y1 - y0 + 1
              window == [k \in 1..(nx * ny) |->
                           LET point == Pt(x0 + ((k - 1) % nx), y0 + ((k - 1) \div nx))
                           IN [point |-> point, score |-> calculateConstraintScore(board, point)]]
              sorted == StableSort(ScoreLeq, window)
          IN [k \in 1..Len(sorted) |-> sorted[k].point]

\* loops that do not look at this.shouldStop
tryPlacementsUnstopped(board, piece, positions, variantCount, v, p, stop) ==
  LET n == Len(positions)
      iteration(vv, pp) == vv * n + pp
      firstOf(fits) ==
        IF fits # {}
        THEN LET c == CHOOSE c \in fits :
                        \A d \in fits : iteration(c[1], c[2]) <= iteration(d[1], d[2])
             IN [found |-> TRUE, piece |-> [piece EXCEPT !.variantIndex = c[1]],
                 v |-> c[1], p |-> c[2],
                 tried |-> iteration(c[1], c[2]) - iteration(v, p) + 1]
        ELSE [found |-> FALSE, piece |-> [piece EXCEPT !.variantIndex = variantCount - 1],
              v |-> variantCount, p |-> 1,
              tried |-> iteration(variantCount - 1, n) - iteration(v, p) + 1]
  IN IF v >= variantCount
     THEN [found |-> FALSE, piece |-> piece, v |-> v, p |-> p, tried |-> 0]
     ELSE firstOf({c \in (v..(variantCount - 1)) \X (1..n) :
                     /\ iteration(c[1], c[2]) >= iteration(v, p)
                     /\ canPlacePiece(board, piece, positions[c[2]], c[1])})

\* The two nested loops of backtrack
\*   for (variantIndex ...) { if (shouldStop) return; piece.variantIndex = variantIndex
\*     for (position of positions) { if (shouldStop) return; stepsExplored++; canPlacePiece? } }
\* run from iteration (v, p) on (p is 1-based, p = Len(positions) + 1 stands for the end of
\* the inner loop), piece.variantIndex = v already assigned, until a piece can be placed or
\* the loops end.  stop is this.shouldStop, which cannot change while the loops run; tried
\* counts the stepsExplored++ executed.
tryPlacements(board, piece, positions, variantCount, v, p, stop) ==
  LET n == Len(positions)
      iteration(vv, pp) == vv * n + pp
      firstOf(fits) ==
        IF fits # {}
        THEN LET c == CHOOSE c \in fits :
                        \A d \in fits : iteration(c[1], c[2]) <= iteration(d[1], d[2])
             IN [found |-> TRUE, piece |-> [piece EXCEPT !.variantIndex = c[1]],
                 v |-> c[1], p |-> c[2],
                 tried |-> iteration(c[1], c[2]) - iteration(v, p) + 1]
        ELSE [found |-> FALSE, piece |-> [piece EXCEPT !.variantIndex = variantCount - 1],
              v |-> variantCount, p |-> 1,
              tried |-> iteration(variantCount - 1, n) - iteration(v, p) + 1]
  IN IF stop \/ v >= variantCount
     THEN [found |-> FALSE, piece |-> piece, v |-> v, p |-> p, tried |-> 0]
     ELSE firstOf({c \in (v..(variantCount - 1)) \X (1..n) :
                     /\ iteration(c[1], c[2]) >= iteration(v, p)
                     /\ canPlacePiece(board, piece, positions[c[2]], c[1])})

addSolution(sols, ps, stepLog, cfg, start, time) ==
  LET placed == SelectSeq(ps, LAMBDA piece : piece.isPlaced)
  IN Append(sols,
       [id |-> Len(sols) + 1,
        placements |-> [i \in 1..Len(placed) |->
                          [pieceType |-> placed[i].type, position |-> placed[i].position,
                           variantIndex |-> placed[i].variantIndex]],
        steps |-> IF cfg.trackSteps THEN stepLog ELSE <<>>,
        solvingTime |-> time - start])

\* an addStep that logs the placements only
addStepPlacementsOnly(stepLog, cfg, piece, position, variantIndex, isPlacement, board) ==
  IF ~cfg.trackSteps \/ ~isPlacement THEN stepLog
  ELSE Append(stepLog,
         [stepNumber |-> Len(stepLog) + 1, pieceType |-> piece.type, position |-> position,
          variantIndex |-> variantIndex, isPlacement |-> isPlacement,
          boardState |-> board.cells])

addStep(stepLog, cfg, piece, position, variantIndex, isPlacement, board) ==
  IF ~cfg.trackSteps THEN stepLog
  ELSE Append(stepLog,
         [stepNumber |-> Len(stepLog) + 1, pieceType |-> piece.type, position |-> position,
          variantIndex |-> variantIndex, isPlacement |-> isPlacement,
          boardState |-> board.cells])

\* a deadline test that takes maxTime = 0 for a deadline
deadlineExpiredAtZero(cfg, start, time) == time - start > cfg.maxTime

\* the test "this.config.maxTime && Date.now() - this.startTime > this.config.maxTime"
deadlineExpired(cfg, start, time) == cfg.maxTime # 0 /\ time - start > cfg.maxTime

\* a search that never tests the limit
enoughSolutionsNever(cfg, sols) == FALSE

\* the test "this.config.maxSolutions && this.solutions.length >= this.config.maxSolutions"
enoughSolutions(cfg, sols) == cfg.maxSolutions # 0 /\ Len(sols) >= cfg.maxSolutions

(***************************************************************************)
(* DancingLinksSolver (solvers/DancingLinksSolver.ts).  Nodes live in an   *)
(* arena: node 0 is this.header, nodes 1..ncols are this.columns, the six  *)
(* nodes of row r follow at ncols + 1 + 6 * r.  L, R, U, D are the left,   *)
(* right, up and down fields, colOf the column field, size the column      *)
(* sizes.                                                                  *)
(***************************************************************************)
header == 0

\* new ColumnNode('header') alone: every link points to the node itself
emptyMatrix ==
  [ncols |-> 0, nrows |-> 0,
   L |-> [n \in {0} |-> 0], R |-> [n \in {0} |-> 0],
   U |-> [n \in {0} |-> 0], D |-> [n \in {0} |-> 0],
   colOf |-> [n \in {0} |-> 0], size |-> [n \in {0} |-> 0]]

rowIdOf(m, node) == IF node <= m.ncols THEN -1 ELSE (node - m.ncols - 1) \div 6

linkColumnToHeader(m, column) ==
  LET last == m.L[header]
      m1 == [m EXCEPT !.L[column] = last, !.R[column] = header]
      m2 == [m1 EXCEPT !.R[last] = column]
  IN [m2 EXCEPT !.L[header] = column]

linkNodeToColumn(m, node, column) ==
  LET last == m.U[column]
      m1 == [m EXCEPT !.D[node] = column, !.U[node] = last]
      m2 == [m1 EXCEPT !.D[last] = node]
  IN [m2 EXCEPT !.U[column] = node, !.size[column] = @ + 1]

\* a bounding box one column too wide
getPieceBoundsWide(pieceCells) ==
  IF Len(pieceCells) = 0 THEN [width |-> 0, height |-> 0]
  ELSE LET xs == {pieceCells[i].x : i \in 1..Len(pieceCells)}
           ys == {pieceCells[i].y : i \in 1..Len(pieceCells)}
       IN [width |-> MaxOf(xs) - MinOf(xs) + 2, height |-> MaxOf(ys) - MinOf(ys) + 1]

getPieceBounds(pieceCells) ==
  IF Len(pieceCells) = 0 THEN [width |-> 0, height |-> 0]
  ELSE LET xs == {pieceCells[i].x : i \in 1..Len(pieceCells)}
           ys == {pieceCells[i].y : i \in 1..Len(pieceCells)}
       IN [width |-> MaxOf(xs) - MinOf(xs) + 1, height |-> MaxOf(ys) - MinOf(ys) + 1]

\* a lookup that finds every cell, empty or not
cellToIndexAnyCell(emptyCells, cell) ==
  IF \E i \in 1..Len(emptyCells) : emptyCells[i] = cell
  THEN (CHOOSE i \in 1..Len(emptyCells) : emptyCells[i] = cell) - 1
  ELSE 0

\* cellToIndex.get(`${x},${y}`): the 0-based index of the cell in emptyCells, -1 if absent
cellToIndex(emptyCells, cell) ==
  IF \E i \in 1..Len(emptyCells) : emptyCells[i] = cell
  THEN (CHOOSE i \in 1..Len(emptyCells) : emptyCells[i] = cell) - 1
  ELSE -1

\* the loops "for y <= maxY, for x <= maxX" of buildMatrix for one variant: the anchors
\* whose five cells are all empty cells, in scan order
variantPlacements(board, emptyCells, pieceType, variantIndex) ==
  LET placementsOf(variant) ==
        LET within(bounds) ==
              LET maxX == board.config.width - bounds.width
                  maxY == board.config.height - bounds.height
                  anchors == IF maxX < 0 \/ maxY < 0 THEN <<>>
                             ELSE [k \in 1..((maxX + 1) * (maxY + 1)) |->
                                     Pt((k - 1) % (maxX + 1), (k - 1) \div (maxX + 1))]
                  allIndexed(pieceCells) ==
                    /\ \A i \in 1..Len(pieceCells) :
                          cellToIndex(emptyCells, pieceCells[i]) >= 0
                    /\ Len(pieceCells) = 5
                  isValidPlacement(position) == allIndexed(getPieceCells(variant, position))
                  rows(valid) ==
                    [k \in 1..Len(valid) |->
                       [pieceType |-> pieceType, position |-> valid[k],
                        variantIndex |-> variantIndex]]
              IN rows(SelectSeq(anchors, isValidPlacement))
        IN within(getPieceBounds(getPieceCells(variant, origin)))
  IN placementsOf(getPentominoVariant(pieceType, variantIndex))

RECURSIVE variantLoop(_, _, _, _)
variantLoop(board, emptyCells, pieceType, variantIndex) ==
  IF variantIndex >= getPentominoVariantCount(pieceType) THEN <<>>
  ELSE variantPlacements(board, emptyCells, pieceType, variantIndex)
       \o variantLoop(board, emptyCells, pieceType, variantIndex + 1)

RECURSIVE pieceLoop(_, _, _, _)
pieceLoop(board, emptyCells, pieceTypes, i) ==
  IF i > Len(pieceTypes) THEN <<>>
  ELSE variantLoop(board, emptyCells, pieceTypes[i], 0)
       \o pieceLoop(board, emptyCells, pieceTypes, i + 1)

\* the placements buildMatrix makes rows of, in rowId order
matrixPlacements(board) == pieceLoop(board, getEmptyCells(board), getAllPentominoTypes, 1)

\* pieceTypes.indexOf(pieceType), 0-based
indexOfType(pieceTypes, pieceType) ==
  (CHOOSE i \in 1..Len(pieceTypes) : pieceTypes[i] = pieceType) - 1

\* the column ids (1-based in the arena) of the nodes createRow makes for a placement
rowColumns(emptyCells, placement, pieceColumnOffset) ==
  LET columnsOf(pieceCells) ==
        <<indexOfType(getAllPentominoTypes, placement.pieceType) + 1>>
        \o [i \in 1..Len(pieceCells) |->
              pieceColumnOffset + cellToIndex(emptyCells, pieceCells[i]) + 1]
  IN columnsOf(getPieceCells(getPentominoVariant(placement.pieceType,
                                                 placement.variantIndex),
                             placement.position))

\* createRow: link the six nodes to their columns, then to each other in a ring
RECURSIVE linkRowNodes(_, _, _, _)
linkRowNodes(m, first, cols, k) ==
  IF k > Len(cols) THEN m
  ELSE linkRowNodes(linkNodeToColumn(m, first + k - 1, cols[k]), first, cols, k + 1)

createRow(m, rowId, cols) ==
  LET first == m.ncols + 1 + 6 * rowId
      m1 == linkRowNodes(m, first, cols, 1)
      n == Len(cols)
  IN IF n = 6
     THEN [m1 EXCEPT !.R = [x \in DOMAIN m1.R |->
                              IF x \in first..(first + n - 1)
                              THEN first + ((x - first + 1) % n) ELSE m1.R[x]],
                     !.L = [x \in DOMAIN m1.L |->
                              IF x \in first..(first + n - 1)
                              THEN first + ((x - first - 1 + n) % n) ELSE m1.L[x]]]
     ELSE m1

RECURSIVE createRows(_, _, _, _)
createRows(m, emptyCells, placements, rowId) ==
  IF rowId >= m.nrows THEN m
  ELSE createRows(createRow(m, rowId,
                            rowColumns(emptyCells, placements[rowId + 1],
                                       Len(getAllPentominoTypes))),
                  emptyCells, placements, rowId + 1)

RECURSIVE linkColumns(_, _)
linkColumns(m, column) ==
  IF column > m.ncols THEN m ELSE linkColumns(linkColumnToHeader(m, column), column + 1)

\* the matrix after buildMatrix(board), given the matrix before
buildMatrix(old, board) ==
  LET build(emptyCells, placements) ==
        LET ncols == Len(getAllPentominoTypes) + Len(emptyCells)
            nodes == 0..(ncols + 6 * Len(placements))
            self == [n \in nodes |-> n]
            fresh == [ncols |-> ncols, nrows |-> Len(placements),
                      L |-> self, R |-> self, U |-> self, D |-> self,
                      colOf |-> [n \in nodes |->
                                   IF n <= ncols THEN n
                                   ELSE rowColumns(emptyCells,
                                                   placements[((n - ncols - 1) \div 6) + 1],
                                                   Len(getAllPentominoTypes))
                                          [((n - ncols - 1) % 6) + 1]],
                      size |-> [n \in 0..ncols |-> 0]]
        IN createRows(linkColumns(fresh, 1), emptyCells, placements, 0)
  IN IF Len(getEmptyCells(board)) < RequiredCells THEN old
     ELSE build(getEmptyCells(board), matrixPlacements(board))

\* this.rowToPlacement after buildMatrix(board): set() for every row created, nothing deleted
buildRowToPlacement(old, board) ==
  LET withRows(placements) ==
        [r \in (DOMAIN old) \cup (0..(Len(placements) - 1)) |->
           IF r < Len(placements) THEN placements[r + 1] ELSE old[r]]
  IN IF Len(getEmptyCells(board)) < RequiredCells THEN old
     ELSE withRows(matrixPlacements(board))

\* a cover that unlinks the nodes of a row but leaves the sizes as they are
RECURSIVE coverNodesSizeKept(_, _, _)
coverNodesSizeKept(m, row, j) ==
  IF j = row THEN m
  ELSE LET m1 == [m EXCEPT !.U[m.D[j]] = m.U[j]]
           m2 == [m1 EXCEPT !.D[m1.U[j]] = m1.D[j]]
       IN coverNodesSizeKept(m2, row, m2.R[j])

RECURSIVE coverNodes(_, _, _)
coverNodes(m, row, j) ==
  IF j = row THEN m
  ELSE LET m1 == [m EXCEPT !.U[m.D[j]] = m.U[j]]
           m2 == [m1 EXCEPT !.D[m1.U[j]] = m1.D[j]]
       IN coverNodes([m2 EXCEPT !.size[m2.colOf[j]] = @ - 1], row, m2.R[j])

RECURSIVE coverRows(_, _, _)
coverRows(m, column, row) ==
  IF row = column THEN m
  ELSE LET m1 == coverNodes(m, row, m.R[row]) IN coverRows(m1, column, m1.D[row])

cover(m, column) ==
  LET m1 == [m EXCEPT !.L[m.R[column]] = m.L[column]]
      m2 == [m1 EXCEPT !.R[m1.L[column]] = m1.R[column]]
  IN coverRows(m2, column, m2.D[column])

RECURSIVE uncoverNodes(_, _, _)
uncoverNodes(m, row, j) ==
  IF j = row THEN m
  ELSE LET m1 == [m EXCEPT !.size[m.colOf[j]] = @ + 1]
           m2 == [m1 EXCEPT !.U[m1.D[j]] = j]
           m3 == [m2 EXCEPT !.D[m2.U[j]] = j]
       IN uncoverNodes(m3, row, m3.L[j])

RECURSIVE uncoverRows(_, _, _)
uncoverRows(m, column, row) ==
  IF row = column THEN m
  ELSE LET m1 == uncoverNodes(m, row, m.L[row]) IN uncoverRows(m1, column, m1.U[row])

\* an uncover that restores the rows but does not relink the column into the header list
uncoverRowsOnly(m, column) == uncoverRows(m, column, m.U[column])

uncover(m, column) ==
  LET m1 == uncoverRows(m, column, m.U[column])
      m2 == [m1 EXCEPT !.L[m1.R[column]] = column]
  IN [m2 EXCEPT !.R[m2.L[column]] = column]

\* the loop of chooseColumn from column c on, with the best column and size so far
RECURSIVE chooseFrom(_, _, _, _)
chooseFrom(m, c, chosen, minSize) ==
  IF c = header THEN chosen
  ELSE IF minSize = -1 \/ m.size[c] < minSize
       THEN chooseFrom(m, m.R[c], c, m.size[c])
       ELSE chooseFrom(m, m.R[c], chosen, minSize)

\* minSize = Infinity is written -1
chooseColumn(m) == chooseFrom(m, m.R[header], m.R[header], -1)

\* "for (let j = row.right; j !== row; j = j.right) this.cover(j.column!)"
RECURSIVE coverRowColumns(_, _, _)
coverRowColumns(m, row, j) ==
  IF j = row THEN m ELSE coverRowColumns(cover(m, m.colOf[j]), row, m.R[j])

\* "for (let j = row.left; j !== row; j = j.left) this.uncover(j.column!)"
RECURSIVE uncoverRowColumns(_, _, _)
uncoverRowColumns(m, row, j) ==
  IF j = row THEN m ELSE uncoverRowColumns(uncover(m, m.colOf[j]), row, m.L[j])

\* DancingLinksSolver.addSolution
addSolutionRows(sols, solutionRows, rtp, start, time) ==
  Append(sols,
    [id |-> Len(sols) + 1,
     placements |-> [i \in 1..Len(solutionRows) |->
                       [pieceType |-> rtp[solutionRows[i]].pieceType,
                        position |-> rtp[solutionRows[i]].position,
                        variantIndex |-> rtp[solutionRows[i]].variantIndex]],
     steps |-> <<>>,
     solvingTime |-> time - start])

(***************************************************************************)
(* Bounds and the inputs callers pass.                                     *)
(***************************************************************************)
\* Date.now() advances up to MaxClock
MaxClock == 2

\* number of solve() calls on the instance
MaxSolves == 2

\* largest config.maxSolutions tried (0 stands for an unset limit)
MaxSolutionsLimit == 1

\* the non-zero config.maxTime tried (0 stands for no deadline)
MaxTimeChoices == {0, 1}

Configs ==
  [maxSolutions : 0..MaxSolutionsLimit, maxTime : MaxTimeChoices, trackSteps : BOOLEAN]

\* 3x4 with two corners blocked: 10 empty cells, tileable by L and P
feasibleConfig == [width |-> 3, height |-> 4, blockedCells |-> <<Pt(0, 0), Pt(0, 3)>>]

\* 3x3: 9 empty cells
smallConfig == [width |-> 3, height |-> 3, blockedCells |-> <<>>]

\* 3x4 with one cell blocked: 11 empty cells
largeConfig == [width |-> 3, height |-> 4, blockedCells |-> <<Pt(1, 1)>>]

\* the feasible board on which the user has already laid the P piece: 5 empty cells
partlyFilledBoard ==
  placePiece(createBoard(feasibleConfig), createPentominoPiece("P", "P-user"), Pt(1, 0), 0)

Boards ==
  {createBoard(feasibleConfig), createBoard(smallConfig), createBoard(largeConfig),
   partlyFilledBoard}

noBoard == createBoard([width |-> 0, height |-> 0, blockedCells |-> <<>>])

noResult ==
  [status |-> "none", success |-> FALSE, solutions |-> <<>>, totalTime |-> 0,
   stepsExplored |-> 0, error |-> undefined]

\* a promise that rejects when solve() ends with an error
settledByError(success, sols, totalTime, explored, error) ==
  [status |-> IF error = undefined THEN "resolved" ELSE "rejected", success |-> success,
   solutions |-> sols, totalTime |-> totalTime, stepsExplored |-> explored, error |-> error]

\* a promise resolved with a SolverResult
resolved(success, sols, totalTime, explored, error) ==
  [status |-> "resolved", success |-> success, solutions |-> sols, totalTime |-> totalTime,
   stepsExplored |-> explored, error |-> error]

\* a catch block that reports success
solveCatchSuccess(sols, start, time, explored, message) ==
  [status |-> "resolved", success |-> TRUE, solutions |-> sols, totalTime |-> time - start,
   stepsExplored |-> explored, error |-> message]

\* the catch block of solve(): the error becomes a result with success false
solveCatch(sols, start, time, explored, message) ==
  resolved(FALSE, sols, time - start, explored, message)

newFrame(pieceIndex) == [pieceIndex |-> pieceIndex, v |-> 0, p |-> 0, positions |-> <<>>]

newSearchFrame == [column |-> 0, row |-> 0]

Running == pc \in {"enter", "delay", "resume"}

\* useSolver after its first render: useState(false), useState(null), the zero progress and
\* the two useRef(null); a ref or a result is the number of the search it belongs to, 0
\* for null
hookIdle ==
  [isLoading |-> FALSE, result |-> 0, progress |-> 0, solverRef |-> 0,
   progressIntervalRef |-> 0]

\* the fields of a ProgressiveSolver that is not constructed yet
progressiveIdle ==
  [board |-> noBoard, pieces |-> <<>>, currentStep |-> 0, steps |-> <<>>,
   isActive |-> FALSE, awaiting |-> FALSE, settled |-> <<>>, calls |-> 0,
   overlapped |-> FALSE,
   last |-> [name |-> undefined, arg |-> 0, returned |-> undefined]]

\* the fields of a WebAssemblySolver whose solve() was never called
wasmIdle ==
  [board |-> <<>>, passed |-> noBoard, solutions |-> <<>>, stepsExplored |-> 0,
   result |-> noResult, should_stop |-> FALSE, calls |-> 0]

\* nothing of the application is at work
AppIdle ==
  /\ hook = hookIdle
  /\ searches = <<>>
  /\ timers = {}
  /\ progressive = progressiveIdle
  /\ wasm = wasmIdle

\* no caller of the geometry and board modules is at work
UtilIdle ==
  /\ geoType = undefined
  /\ geoShape = normalizeShape(<<>>)
  /\ geoVariants = <<>>
  /\ userBoard = noBoard
  /\ userPieces = <<>>
  /\ userOps = <<>>

SolverInit ==
  /\ now = 0
  /\ heap = [r \in {CallerRef, WorkRef} |-> noBoard]
  /\ engine \in {"backtracking", "dancing-links"}
  /\ config \in Configs
  /\ startTime = 0
  /\ solutions = <<>>
  /\ steps = <<>>
  /\ stepsExplored = 0
  /\ shouldStop = FALSE
  /\ cache = <<>>
  /\ matrix = emptyMatrix
  /\ rowToPlacement = <<>>
  /\ pieces = <<>>
  /\ solution = <<>>
  /\ workingBoard = WorkRef
  /\ stack = <<>>
  /\ pc = "idle"
  /\ result = noResult
  /\ solveCount = 0

Init == SolverInit /\ UtilIdle /\ AppIdle

(***************************************************************************)
(* BacktrackingSolver.solve up to its first call of backtrack              *)
(***************************************************************************)
\* what solve(board) does to the solver it is called on
BtSolveCall(board) ==
  /\ engine = "backtracking"
  /\ ~Running
  /\ solveCount < MaxSolves
  /\ solveCount' = solveCount + 1
  /\ startTime' = now
  /\ solutions' = <<>>
  /\ steps' = <<>>
  /\ stepsExplored' = 0
  /\ shouldStop' = FALSE
  /\ LET passed == [heap EXCEPT ![CallerRef] = board]
         pieceTypes == getAllPentominoTypes
         got == cacheGet(cache, board, pieceTypes, now)
     IN /\ cache' = got.cache
        /\ IF got.value # null /\ Len(got.value) > 0
           THEN /\ result' = resolved(TRUE,
                                      SubSeq(got.value, 1,
                                             LET limit == IF config.maxSolutions # 0
                                                          THEN config.maxSolutions ELSE 10
                                             IN IF Len(got.value) < limit
                                                THEN Len(got.value) ELSE limit),
                                      now - startTime', 0, undefined)
                /\ pc' = "done"
                /\ heap' = passed
                /\ UNCHANGED <<pieces, workingBoard, stack>>
           ELSE IF ~isLikelySolvable(board, pieceTypes)
           THEN /\ result' = resolved(TRUE, <<>>, now - startTime', 0, undefined)
                /\ pc' = "done"
                /\ heap' = passed
                /\ UNCHANGED <<pieces, workingBoard, stack>>
           ELSE LET created == [i \in 1..Len(pieceTypes) |->
                                  createPentominoPiece(pieceTypes[i], solverPieceId[pieceTypes[i]])]
                    cloned == cloneBoard(passed, CallerRef)
                IN /\ pieces' = optimizePieceOrder(created)
                   /\ heap' = cloned.heap
                   /\ workingBoard' = cloned.ref
                   /\ stack' = <<newFrame(0)>>
                   /\ pc' = "enter"
                   /\ result' = [noResult EXCEPT !.status = "pending"]
  /\ UNCHANGED <<now, engine, config, matrix, rowToPlacement, solution>>

BtSolve(board) == BtSolveCall(board) /\ UNCHANGED <<utilVars, appVars>>

\* a return of backtrack() / search(): the caller resumes after its await
ReturnToCaller ==
  /\ stack' = SubSeq(stack, 1, Len(stack) - 1)
  /\ pc' = "resume"

\* a timeout whose catch block does not see the solutions recorded
ThrowTimedOutReset ==
  /\ shouldStop' = TRUE
  /\ result' = solveCatch(<<>>, startTime, now, stepsExplored, "Solver timed out")
  /\ stack' = <<>>
  /\ pc' = "done"

\* the error thrown on an expired deadline propagates to the catch block of solve()
ThrowTimedOut ==
  /\ shouldStop' = TRUE
  /\ result' = solveCatch(solutions, startTime, now, stepsExplored, "Solver timed out")
  /\ stack' = <<>>
  /\ pc' = "done"

\* the loops of backtrack from (v, p) on, up to the next recursive call or the return
BtLoop(frame, ps, hp, stepLog, v, p) ==
  LET idx == frame.pieceIndex + 1
      continue(r) ==
        /\ stepsExplored' = stepsExplored + r.tried
        /\ IF r.found
           THEN LET position == frame.positions[r.p]
                    placedPiece == [r.piece EXCEPT !.position = position, !.isPlaced = TRUE]
                    recurse(placedBoard) ==
                      /\ heap' = [hp EXCEPT ![workingBoard] = placedBoard]
                      /\ steps' = addStep(stepLog, config, placedPiece, position, r.v, TRUE,
                                          placedBoard)
                IN /\ recurse(placePiece(hp[workingBoard], r.piece, position, r.v))
                   /\ pieces' = [ps EXCEPT ![idx] = placedPiece]
                   /\ stack' = Append([stack EXCEPT ![Len(stack)] =
                                         [frame EXCEPT !.v = r.v, !.p = r.p]],
                                      newFrame(frame.pieceIndex + 1))
                   /\ pc' = IF config.trackSteps THEN "delay" ELSE "enter"
           ELSE /\ heap' = hp
                /\ pieces' = [ps EXCEPT ![idx] = r.piece]
                /\ steps' = stepLog
                /\ ReturnToCaller
  IN continue(tryPlacements(hp[workingBoard], ps[idx], frame.positions,
                            getPentominoVariantCount(ps[idx].type), v, p, shouldStop))

\* entry of backtrack(board, pieces, pieceIndex)
BtEnter ==
  /\ engine = "backtracking"
  /\ pc = "enter"
  /\ LET frame == stack[Len(stack)]
         board == heap[workingBoard]
     IN IF deadlineExpired(config, startTime, now)
        THEN /\ ThrowTimedOut
             /\ heap' = dropClone(heap, workingBoard)
             /\ pieces' = <<>>
             /\ UNCHANGED <<steps, stepsExplored, solutions>>
        ELSE IF enoughSolutions(config, solutions)
        THEN /\ shouldStop' = TRUE
             /\ ReturnToCaller
             /\ UNCHANGED <<heap, pieces, steps, stepsExplored, solutions, result>>
        ELSE IF frame.pieceIndex >= Len(pieces)
        THEN /\ solutions' = IF isBoardComplete(board)
                             THEN addSolution(solutions, pieces, steps, config, startTime, now)
                             ELSE solutions
             /\ ReturnToCaller
             /\ UNCHANGED <<heap, pieces, steps, stepsExplored, shouldStop, result>>
        ELSE IF ~canRemainingPiecesFit(board, pieces, frame.pieceIndex)
        THEN /\ ReturnToCaller
             /\ UNCHANGED <<heap, pieces, steps, stepsExplored, shouldStop, result, solutions>>
        ELSE LET positions == getOptimalPositions(board)
                 idx == frame.pieceIndex + 1
                 first == IF shouldStop \/ getPentominoVariantCount(pieces[idx].type) = 0
                          THEN pieces
                          ELSE [pieces EXCEPT ![idx].variantIndex = 0]
             IN /\ BtLoop([frame EXCEPT !.positions = positions], first, heap, steps, 0, 1)
                /\ UNCHANGED <<shouldStop, result, solutions>>
  /\ UNCHANGED <<now, engine, config, startTime, cache, matrix, rowToPlacement, solution,
                 workingBoard, solveCount>>
  /\ UNCHANGED <<utilVars, appVars>>

\* backtrack() resumes after "await this.backtrack(board, pieces, pieceIndex + 1)"
BtResume ==
  /\ engine = "backtracking"
  /\ pc = "resume"
  /\ stack # <<>>
  /\ LET frame == stack[Len(stack)]
         idx == frame.pieceIndex + 1
         currentPiece == pieces[idx]
         removed == removePiece(heap[workingBoard], currentPiece)
         ps == [pieces EXCEPT ![idx].isPlaced = FALSE]
         stepLog == addStep(steps, config, ps[idx], frame.positions[frame.p], frame.v, FALSE,
                            removed)
     IN BtLoop(frame, ps, [heap EXCEPT ![workingBoard] = removed], stepLog, frame.v,
               frame.p + 1)
  /\ UNCHANGED <<now, engine, config, startTime, solutions, shouldStop, cache, matrix,
                 rowToPlacement, solution, workingBoard, result, solveCount>>
  /\ UNCHANGED <<utilVars, appVars>>

\* solve() resumes after "await this.backtrack(workingBoard, pieces, 0)" and returns
BtReturn ==
  /\ engine = "backtracking"
  /\ pc = "resume"
  /\ stack = <<>>
  /\ cache' = IF Len(solutions) > 0
              THEN cacheSet(cache, heap[CallerRef], getAllPentominoTypes, solutions, now)
              ELSE cache
  /\ result' = resolved(TRUE, solutions, now - startTime, stepsExplored, undefined)
  /\ pc' = "done"
  /\ heap' = dropClone(heap, workingBoard)
  /\ pieces' = <<>>
  /\ UNCHANGED <<now, engine, config, startTime, solutions, steps, stepsExplored,
                 shouldStop, matrix, rowToPlacement, solution, workingBoard, stack,
                 solveCount>>
  /\ UNCHANGED <<utilVars, appVars>>

(***************************************************************************)
(* DancingLinksSolver.solve and search                                     *)
(***************************************************************************)
DlxSolve(board) ==
  /\ engine = "dancing-links"
  /\ ~Running
  /\ solveCount < MaxSolves
  /\ solveCount' = solveCount + 1
  /\ startTime' = now
  /\ solutions' = <<>>
  /\ stepsExplored' = 0
  /\ shouldStop' = FALSE
  /\ heap' = [heap EXCEPT ![CallerRef] = board]
  /\ matrix' = buildMatrix(matrix, board)
  /\ rowToPlacement' = buildRowToPlacement(rowToPlacement, board)
  /\ solution' = <<>>
  /\ stack' = <<newSearchFrame>>
  /\ pc' = "enter"
  /\ result' = [noResult EXCEPT !.status = "pending"]
  /\ UNCHANGED <<now, engine, config, steps, cache, pieces, workingBoard>>
  /\ UNCHANGED <<utilVars, appVars>>

\* the row loop of search from row on, up to the next recursive call or the return
DlxLoop(m, column, row, sol) ==
  IF row = column
  THEN /\ matrix' = uncover(m, column)
       /\ solution' = sol
       /\ ReturnToCaller
  ELSE IF shouldStop
  THEN /\ matrix' = m
       /\ solution' = sol
       /\ ReturnToCaller
  ELSE /\ solution' = Append(sol, rowIdOf(m, row))
       /\ matrix' = coverRowColumns(m, row, m.R[row])
       /\ stack' = Append([stack EXCEPT ![Len(stack)] = [column |-> column, row |-> row]],
                          newSearchFrame)
       /\ pc' = IF config.trackSteps THEN "delay" ELSE "enter"

\* entry of search(solution)
DlxEnter ==
  /\ engine = "dancing-links"
  /\ pc = "enter"
  /\ IF deadlineExpired(config, startTime, now)
     THEN /\ ThrowTimedOut
          /\ solution' = <<>>
          /\ UNCHANGED <<matrix, stepsExplored, solutions>>
     ELSE IF enoughSolutions(config, solutions)
     THEN /\ shouldStop' = TRUE
          /\ ReturnToCaller
          /\ UNCHANGED <<matrix, solution, stepsExplored, solutions, result>>
     ELSE IF shouldStop
     THEN /\ ReturnToCaller
          /\ UNCHANGED <<matrix, solution, stepsExplored, solutions, shouldStop, result>>
     ELSE /\ stepsExplored' = stepsExplored + 1
          /\ IF matrix.R[header] = header
             THEN IF \A i \in 1..Len(solution) : solution[i] \in DOMAIN rowToPlacement
                  THEN /\ solutions' = addSolutionRows(solutions, solution, rowToPlacement,
                                                       startTime, now)
                       /\ ReturnToCaller
                       /\ UNCHANGED <<matrix, solution, shouldStop, result>>
                  ELSE \* rowToPlacement.get(rowId)! is undefined: a TypeError is thrown
                       /\ result' = solveCatch(solutions, startTime, now, stepsExplored',
                                               "TypeError")
                       /\ stack' = <<>>
                       /\ pc' = "done"
                       /\ solution' = <<>>
                       /\ UNCHANGED <<matrix, shouldStop, solutions>>
             ELSE LET column == chooseColumn(matrix)
                      covered == cover(matrix, column)
                  IN /\ DlxLoop(covered, column, covered.D[column], solution)
                     /\ UNCHANGED <<shouldStop, result, solutions>>
  /\ UNCHANGED <<now, heap, engine, config, startTime, steps, cache, rowToPlacement, pieces,
                 workingBoard, solveCount>>
  /\ UNCHANGED <<utilVars, appVars>>

\* search() resumes after "await this.search(solution)"
DlxResume ==
  /\ engine = "dancing-links"
  /\ pc = "resume"
  /\ stack # <<>>
  /\ LET frame == stack[Len(stack)]
         uncovered == uncoverRowColumns(matrix, frame.row, matrix.L[frame.row])
         popped == SubSeq(solution, 1, Len(solution) - 1)
     IN DlxLoop(uncovered, frame.column, uncovered.D[frame.row], popped)
  /\ UNCHANGED <<now, heap, engine, config, startTime, solutions, steps, stepsExplored,
                 shouldStop, cache, rowToPlacement, pieces, workingBoard, result, solveCount>>
  /\ UNCHANGED <<utilVars, appVars>>

\* solve() resumes after "await this.search(solution)" and returns
DlxReturn ==
  /\ engine = "dancing-links"
  /\ pc = "resume"
  /\ stack = <<>>
  /\ result' = resolved(TRUE, solutions, now - startTime, stepsExplored, undefined)
  /\ pc' = "done"
  /\ UNCHANGED <<now, heap, engine, config, startTime, solutions, steps, stepsExplored,
                 shouldStop, cache, matrix, rowToPlacement, pieces, solution, workingBoard,
                 stack, solveCount>>
  /\ UNCHANGED <<utilVars, appVars>>

(***************************************************************************)
(* The environment: the timer of delay(10), stop() and the clock           *)
(***************************************************************************)
\* "await this.delay(10)" is over: the recursive call is made
DelayElapsed ==
  /\ pc = "delay"
  /\ pc' = "enter"
  /\ UNCHANGED <<now, heap, engine, config, startTime, solutions, steps, stepsExplored,
                 shouldStop, cache, matrix, rowToPlacement, pieces, solution, workingBoard,
                 stack, result, solveCount>>
  /\ UNCHANGED <<utilVars, appVars>>

\* a stop() that also discards what the instance holds
StopDiscardingResult ==
  /\ pc \in {"idle", "delay", "resume", "done"}
  /\ shouldStop' = TRUE
  /\ result' = IF Running THEN result ELSE noResult
  /\ UNCHANGED <<now, heap, engine, config, startTime, solutions, steps, stepsExplored,
                 cache, matrix, rowToPlacement, pieces, solution, workingBoard, stack, pc,
                 solveCount>>
  /\ UNCHANGED <<utilVars, appVars>>

\* stop() runs where the event loop can run the caller: while solve() is suspended at an
\* await, or when no solve() is in flight
Stop ==
  /\ pc \in {"idle", "delay", "resume", "done"}
  /\ shouldStop' = TRUE
  /\ UNCHANGED <<now, heap, engine, config, startTime, solutions, steps, stepsExplored,
                 cache, matrix, rowToPlacement, pieces, solution, workingBoard, stack, pc,
                 result, solveCount>>
  /\ UNCHANGED <<utilVars, appVars>>

\* Date.now() is read when solve() starts, on entry of backtrack()/search() and when
\* solve() returns, and only differences to this.startTime are used; time that passes
\* elsewhere during a solve() is observed at the next of these points, so the clock is
\* advanced there.  Without a deadline the clock only feeds solvingTime and totalTime;
\* it is advanced for the instances that have a deadline, until the deadline has expired.
Tick ==
  /\ now < MaxClock
  /\ config.maxTime # 0
  /\ ~deadlineExpired(config, startTime, now)
  /\ pc = "enter" \/ (pc = "resume" /\ stack = <<>>)
  /\ now' = now + 1
  /\ UNCHANGED <<heap, engine, config, startTime, solutions, steps, stepsExplored,
                 shouldStop, cache, matrix, rowToPlacement, pieces, solution, workingBoard,
                 stack, pc, result, solveCount>>
  /\ UNCHANGED <<utilVars, appVars>>

Next ==
  \/ \E board \in Boards : BtSolve(board)
  \/ BtEnter
  \/ BtResume
  \/ BtReturn
  \/ \E board \in Boards : DlxSolve(board)
  \/ DlxEnter
  \/ DlxResume
  \/ DlxReturn
  \/ DelayElapsed
  \/ Stop
  \/ Tick

Spec == Init /\ [][Next]_vars

\* the steps of a solve() in flight: its continuations and the timer of delay(10)
SearchStep ==
  BtEnter \/ BtResume \/ BtReturn \/ DlxEnter \/ DlxResume \/ DlxReturn \/ DelayElapsed

\* The scheduling of the event loop: a timer that is set fires, and a continuation that is
\* ready runs.  The second conjunct is WF_vars(SearchStep) with ENABLED <<SearchStep>>_vars
\* written out: a step of the search is possible exactly while a solve() is in flight.
LiveSpec ==
  /\ Spec
  /\ WF_vars(DelayElapsed)
  /\ []<>(~Running) \/ []<><<SearchStep>>_vars

(***************************************************************************)
(* Properties                                                              *)
(***************************************************************************)
placementCells(placement) ==
  Range(getPieceCells(getPentominoVariant(placement.pieceType, placement.variantIndex),
                      placement.position))

cellsWithState(board, state) ==
  {c \in {Pt(cx, cy) : cx \in 0..(board.config.width - 1), cy \in 0..(board.config.height - 1)} :
     board.cells[c.y][c.x].state = state}

\* the validator of a solution for a board: one placement per piece type of the catalog,
\* pairwise disjoint, off the blocked cells, together exactly the empty cells
ValidSolution(sol, board) ==
  LET pl == sol.placements
  IN /\ Len(pl) = Len(getAllPentominoTypes)
     /\ \A i, j \in 1..Len(pl) : i # j => pl[i].pieceType # pl[j].pieceType
     /\ \A i, j \in 1..Len(pl) : i # j => placementCells(pl[i]) \cap placementCells(pl[j]) = {}
     /\ \A i \in 1..Len(pl) : placementCells(pl[i]) \cap cellsWithState(board, "blocked") = {}
     /\ UNION {placementCells(pl[i]) : i \in 1..Len(pl)} = cellsWithState(board, "empty")

Returned == pc = "done" /\ result.status = "resolved"

\* the step in which backtrack()/search() finds the deadline expired
TimeoutStep ==
  pc = "enter" /\ deadlineExpired(config, startTime, now) /\ now' = now

\* C1: every solution in a result returned by solve(), of either engine and on any board,
\* has one placement per piece type, the placements are pairwise disjoint, cover no blocked
\* cell and together cover exactly the empty cells of the board passed.
C1_SolutionsValid ==
  Returned => \A i \in 1..Len(result.solutions) :
                 ValidSolution(result.solutions[i], heap[CallerRef])

\* C2: on a board whose number of empty cells differs from the required number, solve()
\* returns success = true and no solution.
C2_InfeasibleBoardEmpty ==
  (Returned /\ Len(getEmptyCells(heap[CallerRef])) # RequiredCells)
     => (result.success /\ result.solutions = <<>>)

\* C3: with maxSolutions = k >= 1 neither the solutions recorded during a search nor the
\* solutions of a returned result (searched or served from the cache) exceed k entries.
C3_MaxSolutionsRespected ==
  config.maxSolutions >= 1 =>
     /\ Len(solutions) <= config.maxSolutions
     /\ Len(result.solutions) <= config.maxSolutions

\* a search that ended at the limit while the board has more tilings to offer
C3_Witness ==
  /\ Returned /\ config.maxSolutions = 1 /\ Len(result.solutions) = 1
  /\ result.stepsExplored > 0 /\ result.success

C6_TimeoutRejects ==
  [][TimeoutStep => result'.status = "rejected"]_vars

C8_CallerBoardUnchanged ==
  [][IF solveCount' # solveCount
     THEN heap'[CallerRef] \in Boards
     ELSE heap'[CallerRef] = heap[CallerRef]]_vars

\* the search has a piece on its working board and the caller's board does not show it
C8_Witness ==
  /\ engine = "backtracking" /\ Running
  /\ heap[workingBoard].emptyCellCount < heap[CallerRef].emptyCellCount
  /\ heap[CallerRef] \in Boards

\* C9: once the stop flag is set during a solve(), the search explores no further step,
\* keeps the solutions recorded, and solve() eventually returns a resolved result that
\* holds them.
C9_StopReturns ==
  /\ (Running /\ shouldStop) ~> Returned
  /\ [][(Running /\ shouldStop) =>
          /\ stepsExplored' = stepsExplored
          /\ Len(solutions') >= Len(solutions)
          /\ SubSeq(solutions', 1, Len(solutions)) = solutions
          /\ pc' = "done" => (result'.status = "resolved" /\ result'.solutions = solutions')]_vars

\* a search on a board with two tilings and no limit that stop() ended after the first
C9_Witness ==
  /\ Returned /\ result.success /\ shouldStop /\ config.maxSolutions = 0
  /\ result.stepsExplored > 0 /\ Len(result.solutions) = 1

\* C10: once the stop flag is set during a search, no further piece is placed on the
\* working board (no row is pushed on the solution) and no solution is appended.
C10_NothingAfterStop ==
  [][(Running /\ shouldStop) =>
        /\ solutions' = solutions
        /\ Len(solution') <= Len(solution)
        /\ heap'[workingBoard].emptyCellCount >= heap[workingBoard].emptyCellCount]_vars

\* the variables stop() does not assign
ExceptShouldStop ==
  <<now, heap, engine, config, startTime, solutions, steps, stepsExplored, cache, matrix,
    rowToPlacement, pieces, solution, workingBoard, stack, pc, result, solveCount, utilVars, appVars>>

\* C11: a stop() while no solve() is in flight assigns the flag and nothing else (the result
\* already returned stays), a second stop() changes nothing at all, and the next solve()
\* starts with the flag cleared, so that what it does is not affected.
C11_StopIdleNoOp ==
  [][/\ (~Running /\ solveCount' = solveCount) =>
           /\ UNCHANGED ExceptShouldStop
           /\ shouldStop'
           /\ shouldStop => UNCHANGED vars
     /\ solveCount' # solveCount => ~shouldStop']_vars

\* the second solve() of an instance has returned the complete enumeration of a board with
\* two tilings, and the result stands after a stop() (with neither a limit nor a deadline
\* configured only stop() sets the flag)
C11_Witness ==
  /\ pc = "done" /\ solveCount = MaxSolves /\ shouldStop
  /\ config.maxSolutions = 0 /\ config.maxTime = 0
  /\ result.success /\ Len(result.solutions) = 2 /\ result.stepsExplored > 0

(***************************************************************************)
(* getProgress().  The specification below lets the clock advance also     *)
(* while no solve() is in flight, which is when a caller polls an instance *)
(* that is new or has finished; the clock counts from the value 0 that the *)
(* field startTime holds after construction.                               *)
(***************************************************************************)
getProgress ==
  [stepsExplored |-> stepsExplored, solutionsFound |-> Len(solutions),
   timeElapsed |-> now - startTime]

\* the board the polled instance is asked to solve
ProgressBoards == {createBoard(feasibleConfig)}

\* time passes between two calls of the caller
Elapse ==
  /\ pc \in {"idle", "done"}
  /\ now < MaxClock
  /\ now' = now + 1
  /\ UNCHANGED <<heap, engine, config, startTime, solutions, steps, stepsExplored,
                 shouldStop, cache, matrix, rowToPlacement, pieces, solution, workingBoard,
                 stack, pc, result, solveCount>>
  /\ UNCHANGED <<utilVars, appVars>>

ProgressNext ==
  \/ \E board \in ProgressBoards : BtSolve(board)
  \/ BtEnter
  \/ BtResume
  \/ BtReturn
  \/ \E board \in ProgressBoards : DlxSolve(board)
  \/ DlxEnter
  \/ DlxResume
  \/ DlxReturn
  \/ DelayElapsed
  \/ Stop
  \/ Tick
  \/ Elapse

ProgressSpec == Init /\ [][ProgressNext]_vars

\* C12: getProgress() returns three zeros before the first solve(); after solve() has ended
\* it returns stepsExplored and solutionsFound equal to those of the returned result, and
\* the same three values on every later call.
C12_ProgressSnapshot ==
  [][/\ solveCount' = 0 =>
           getProgress' = [stepsExplored |-> 0, solutionsFound |-> 0, timeElapsed |-> 0]
     /\ Returned' =>
           /\ getProgress'.stepsExplored = result'.stepsExplored
           /\ getProgress'.solutionsFound = Len(result'.solutions)
     /\ (pc = "done" /\ pc' = "done") => getProgress' = getProgress]_vars

\* C12, the parts taken one by one: zeros before the first solve()
C12_ZeroBeforeSolve ==
  solveCount = 0 => getProgress = [stepsExplored |-> 0, solutionsFound |-> 0, timeElapsed |-> 0]

\* the counters of the final snapshot are those of the result
C12_CountersOfResult ==
  Returned => /\ getProgress.stepsExplored = result.stepsExplored
              /\ getProgress.solutionsFound = Len(result.solutions)

\* the final snapshot does not change
C12_SnapshotStable ==
  [][(pc = "done" /\ pc' = "done") => getProgress' = getProgress]_vars

(***************************************************************************)
(* The two engines on the same boards, one of them wider than the window   *)
(* of getOptimalPositions.                                                 *)
(***************************************************************************)
\* 7x3 with room for an L at the left and for a P at the right: 10 empty cells, one tiling
wideConfig ==
  [width |-> 7, height |-> 3,
   blockedCells |-> <<Pt(4, 0), Pt(1, 1), Pt(2, 1), Pt(3, 1), Pt(4, 1), Pt(0, 2), Pt(1, 2),
                      Pt(2, 2), Pt(3, 2), Pt(4, 2), Pt(6, 2)>>]

WideBoards == {createBoard(wideConfig), createBoard(feasibleConfig)}

WideNext ==
  \/ \E board \in WideBoards : BtSolve(board)
  \/ BtEnter
  \/ BtResume
  \/ BtReturn
  \/ \E board \in WideBoards : DlxSolve(board)
  \/ DlxEnter
  \/ DlxResume
  \/ DlxReturn
  \/ DelayElapsed
  \/ Stop
  \/ Tick

WideSpec == Init /\ [][WideNext]_vars

\* every placement of a catalog piece on empty cells of the board
AllPlacements(board) ==
  {pl \in [pieceType : Range(getAllPentominoTypes),
           position : {Pt(px, py) : px \in 0..(board.config.width - 1),
                                    py \in 0..(board.config.height - 1)},
           variantIndex : 0..7] :
     /\ pl.variantIndex < getPentominoVariantCount(pl.pieceType)
     /\ placementCells(pl) \subseteq cellsWithState(board, "empty")}

\* the tilings of the board: one placement per piece type, disjoint, covering the empty cells
Tilings(board) ==
  LET choices == {f \in [Range(getAllPentominoTypes) -> AllPlacements(board)] :
                    /\ \A t \in DOMAIN f : f[t].pieceType = t
                    /\ \A s, t \in DOMAIN f : s # t => placementCells(f[s]) \cap placementCells(f[t]) = {}
                    /\ UNION {placementCells(f[t]) : t \in DOMAIN f}
                         = cellsWithState(board, "empty")}
  IN {{f[t] : t \in DOMAIN f} : f \in choices}

TilingsOf(sols) == {Range(sols[i].placements) : i \in 1..Len(sols)}

\* the first solve() of an instance has run to its end with no limit, no deadline, no stop()
CompleteRun ==
  /\ Returned /\ solveCount = 1 /\ result.success /\ ~shouldStop
  /\ config.maxSolutions = 0 /\ config.maxTime = 0

\* C13: run to the end on the same board with no solution limit and no time limit, each
\* engine reports the tilings of the board, each once: the two engines report the same
\* number of solutions and the same set of tilings.
C13_EnginesAgree ==
  CompleteRun =>
     /\ Len(result.solutions) = Cardinality(Tilings(heap[CallerRef]))
     /\ TilingsOf(result.solutions) = Tilings(heap[CallerRef])

\* what DancingLinksSolver reports on these boards is the set of tilings
C13_DancingLinksComplete ==
  (CompleteRun /\ engine = "dancing-links") =>
     /\ Len(result.solutions) = Cardinality(Tilings(heap[CallerRef]))
     /\ TilingsOf(result.solutions) = Tilings(heap[CallerRef])

\* what BacktrackingSolver reports is a set of tilings, each reported once
C13_BacktrackingSound ==
  (CompleteRun /\ engine = "backtracking") =>
     /\ TilingsOf(result.solutions) \subseteq Tilings(heap[CallerRef])
     /\ Cardinality(TilingsOf(result.solutions)) = Len(result.solutions)

(***************************************************************************)
(* A caller of utils/geometry.ts: it takes the base shape of a piece,      *)
(* turns and flips it, and asks for the variants of what it holds.         *)
(***************************************************************************)
\* the solver instance of a behaviour in which only the utility modules are called
SolverUnused ==
  /\ SolverInit
  /\ engine = "backtracking"
  /\ config = [maxSolutions |-> 0, maxTime |-> 0, trackSteps |-> FALSE]

GeoInit ==
  /\ SolverUnused
  /\ geoType \in Range(PentominoTypes)
  /\ geoShape = BASE_SHAPES[geoType]
  /\ geoVariants = <<>>
  /\ userBoard = noBoard
  /\ userPieces = <<>>
  /\ userOps = <<>>
  /\ AppIdle

GeoRotate ==
  /\ geoShape' = rotateShape90CW(geoShape)
  /\ UNCHANGED <<solverVars, appVars, geoType, geoVariants, userBoard, userPieces, userOps>>

GeoFlip ==
  /\ geoShape' = flipShapeHorizontal(geoShape)
  /\ UNCHANGED <<solverVars, appVars, geoType, geoVariants, userBoard, userPieces, userOps>>

GeoGenerate ==
  /\ geoVariants' = generateShapeVariants(geoShape)
  /\ UNCHANGED <<solverVars, appVars, geoType, geoShape, userBoard, userPieces, userOps>>

GeoNext ==
  \/ GeoRotate
  \/ GeoFlip
  \/ GeoGenerate

GeoSpec == GeoInit /\ [][GeoNext]_vars

\* the variant counts the claim names; for the other pieces any count from 1 to 8
claimedVariantCounts ==
  [t \in Range(PentominoTypes) |->
     IF t = "X" THEN {1}
     ELSE IF t = "I" THEN {2}
     ELSE IF t = "Z" THEN {4}
     ELSE IF t \in {"F", "N", "P", "Y"} THEN {8}
     ELSE 1..8]

\* C14: generateShapeVariants derives 1 variant for X, 2 for I, 4 for Z, 8 for each of F, N,
\* P and Y and between 1 and 8 for every piece, and the variants are pairwise different as
\* cell sets.  (Stated for the base shape and for every orientation of it as input.)
C14_VariantCounts ==
  geoVariants # <<>> =>
     /\ Len(geoVariants) \in claimedVariantCounts[geoType]
     /\ \A i, j \in 1..Len(geoVariants) :
           i # j => Range(geoVariants[i].cells) # Range(geoVariants[j].cells)

\* the four variants of the Z piece have been generated from its base shape
C14_Witness ==
  /\ geoType = "Z"
  /\ geoVariants = generateShapeVariants(BASE_SHAPES[geoType])
  /\ Len(geoVariants) = 4 /\ geoShape = BASE_SHAPES[geoType]

\* a shape of exactly 5 distinct cells that starts at (0, 0) and whose bounds are
\* (max x + 1, max y + 1)
WellFormedShape(shape) ==
  /\ Len(shape.cells) = PieceCells
  /\ Cardinality(Range(shape.cells)) = PieceCells
  /\ MinOf({shape.cells[i].x : i \in 1..Len(shape.cells)}) = 0
  /\ MinOf({shape.cells[i].y : i \in 1..Len(shape.cells)}) = 0
  /\ shape.bounds.width = MaxOf({shape.cells[i].x : i \in 1..Len(shape.cells)}) + 1
  /\ shape.bounds.height = MaxOf({shape.cells[i].y : i \in 1..Len(shape.cells)}) + 1

\* C15: every variant of every one of the 12 piece definitions has exactly 5 distinct cells,
\* minimum x = 0 and minimum y = 0, and bounds (max x + 1, max y + 1); so has every variant
\* that generateShapeVariants returns for an orientation of a base shape.
C15_VariantsNormalized ==
  /\ \A i \in 1..Len(geoVariants) : WellFormedShape(geoVariants[i])
  /\ \A i \in 1..Len(getPentominoDefinition(geoType).variants) :
        WellFormedShape(getPentominoDefinition(geoType).variants[i])

\* the eight variants of the F piece as its definition holds them
C15_Witness ==
  /\ geoType = "F"
  /\ geoVariants = getPentominoDefinition("F").variants
  /\ Len(geoVariants) = 8

(***************************************************************************)
(* solve() on boards made from invalid configurations.  createBoard        *)
(* accepts any configuration; validateBoardConfig is a separate function.  *)
(***************************************************************************)
\* validateBoardConfig: one message per violated rule, in the order of the checks
validateBoardConfig(boardConfig) ==
  (IF boardConfig.width <= 0 THEN <<"Board width must be positive">> ELSE <<>>)
  \o (IF boardConfig.height <= 0 THEN <<"Board height must be positive">> ELSE <<>>)
  \o (IF boardConfig.width > 50 \/ boardConfig.height > 50
      THEN <<"Board dimensions are too large (max 50x50)">> ELSE <<>>)
  \o SelectSeq([i \in 1..Len(boardConfig.blockedCells) |->
                  IF isPointInBounds(boardConfig.blockedCells[i], boardConfig)
                  THEN "" ELSE "Blocked cell is outside board bounds"],
               LAMBDA message : message # "")
  \o (IF boardConfig.width * boardConfig.height - Len(boardConfig.blockedCells) < RequiredCells
      THEN <<"Not enough empty cells for all pentominoes">> ELSE <<>>)

\* the configuration errors the claim names
invalidConfiguration(boardConfig) ==
  \E i \in 1..Len(validateBoardConfig(boardConfig)) :
     validateBoardConfig(boardConfig)[i] \in
        {"Board width must be positive", "Board height must be positive",
         "Blocked cell is outside board bounds"}

\* width 0
zeroWidthConfig == [width |-> 0, height |-> 4, blockedCells |-> <<>>]

\* height 0
zeroHeightConfig == [width |-> 3, height |-> 0, blockedCells |-> <<>>]

\* the feasible 3x4 configuration with one more blocked cell, outside the board
outsideConfig ==
  [width |-> 3, height |-> 4, blockedCells |-> <<Pt(0, 0), Pt(0, 3), Pt(3, 4)>>]

InvalidBoards ==
  {createBoard(zeroWidthConfig), createBoard(zeroHeightConfig), createBoard(outsideConfig)}

InvalidNext ==
  \/ \E board \in InvalidBoards : BtSolve(board)
  \/ BtEnter
  \/ BtResume
  \/ BtReturn
  \/ \E board \in InvalidBoards : DlxSolve(board)
  \/ DlxEnter
  \/ DlxResume
  \/ DlxReturn
  \/ DelayElapsed
  \/ Stop
  \/ Tick

InvalidSpec == Init /\ [][InvalidNext]_vars

\* C16: a solve() on a board whose configuration is invalid (width or height <= 0, or a
\* blocked cell outside the board) returns success = false with an error description and
\* has explored no step.
C16_InvalidConfigRejected ==
  (Returned /\ invalidConfiguration(heap[CallerRef].config)) =>
     /\ ~result.success
     /\ result.error # undefined
     /\ result.stepsExplored = 0

\* C16, weaker: no search step is ever explored on a board of an invalid configuration
C16_NoSearchOnInvalid ==
  invalidConfiguration(heap[CallerRef].config) => stepsExplored = 0

\* a solve() of BacktrackingSolver that was answered from the cache
CacheHit ==
  /\ Returned /\ engine = "backtracking" /\ result.success
  /\ result.stepsExplored = 0 /\ result.solutions # <<>>

\* the number of solutions a search that runs to its end reports for a board with n tilings
expectedCount(cfg, n) ==
  IF cfg.maxSolutions # 0 /\ cfg.maxSolutions < n THEN cfg.maxSolutions ELSE n

\* What a new BacktrackingSolver returns, with no deadline, for the boards passed here (the
\* window of getOptimalPositions covers them): tilings of the board, as many as the board
\* has or the limit allows.
C17_FreshRunComplete ==
  (Returned /\ engine = "backtracking" /\ solveCount = 1 /\ ~shouldStop /\ config.maxTime = 0) =>
     /\ TilingsOf(result.solutions) \subseteq Tilings(heap[CallerRef])
     /\ Len(result.solutions) = expectedCount(config, Cardinality(Tilings(heap[CallerRef])))
     /\ Cardinality(TilingsOf(result.solutions)) = Len(result.solutions)

\* C17: a solve() answered from the cache returns what a new instance with an empty cache
\* returns for the same board and config: tilings of the board passed, as many as the board
\* has or the limit allows.
C17_CacheTransparent ==
  (CacheHit /\ config.maxTime = 0) =>
     /\ TilingsOf(result.solutions) \subseteq Tilings(heap[CallerRef])
     /\ Len(result.solutions) = expectedCount(config, Cardinality(Tilings(heap[CallerRef])))
     /\ Cardinality(TilingsOf(result.solutions)) = Len(result.solutions)

\* C17 on the board the cached solutions were found on: the list is still not the one of a
\* new instance when the first solve() was stopped early
C17_CacheTransparentSameBoard ==
  (CacheHit /\ config.maxTime = 0 /\ heap[CallerRef] = createBoard(feasibleConfig)) =>
     Len(result.solutions) = expectedCount(config, Cardinality(Tilings(heap[CallerRef])))

(***************************************************************************)
(* A caller of utils/board-utils.ts: it creates a board and then calls     *)
(* setCellState, placePiece, removePiece and resetBoard on it, keeping the *)
(* fields of its pieces in step with the board, as the game does.          *)
(***************************************************************************)
\* number of board-utils calls in a behaviour, createBoard included
MaxOps == 4

\* 3x4 boards: two blocked cells; the same cell listed twice; a blocked cell out of bounds
duplicateConfig == [width |-> 3, height |-> 4, blockedCells |-> <<Pt(0, 0), Pt(0, 0)>>]

UserConfigs == {feasibleConfig, duplicateConfig, outsideConfig}

\* the cells the caller sets by hand: one inside the board, one outside
UserCells == {Pt(1, 1), Pt(3, 1)}

\* the orientations the caller lays a piece in
UserVariants == {0, 1, 5}

UserTypes == Range(getAllPentominoTypes)

userPieceId == [L |-> "L-user", P |-> "P-user"]

\* a call and what it returned
called(name, returned) == [op |-> name, ok |-> returned]

BoardInit ==
  /\ SolverUnused
  /\ geoType = undefined
  /\ geoShape = normalizeShape(<<>>)
  /\ geoVariants = <<>>
  /\ \E boardConfig \in UserConfigs : userBoard = createBoard(boardConfig)
  /\ userPieces = [t \in UserTypes |-> createPentominoPiece(t, userPieceId[t])]
  /\ userOps = <<called("createBoard", TRUE)>>
  /\ AppIdle

UserSetCell(position, state) ==
  /\ Len(userOps) < MaxOps
  /\ userBoard' = setCellState(userBoard, position, state, undefined, undefined)
  /\ userOps' = Append(userOps, called("setCellState", isValidPosition(userBoard, position)))
  /\ UNCHANGED <<solverVars, appVars, geoType, geoShape, geoVariants, userPieces>>

UserPlace(type, position, variantIndex) ==
  /\ Len(userOps) < MaxOps
  /\ ~userPieces[type].isPlaced
  /\ userBoard' = placePiece(userBoard, userPieces[type], position, variantIndex)
  /\ userPieces' = IF canPlacePiece(userBoard, userPieces[type], position, variantIndex)
                   THEN [userPieces EXCEPT ![type].position = position,
                                           ![type].variantIndex = variantIndex,
                                           ![type].isPlaced = TRUE]
                   ELSE userPieces
  /\ userOps' = Append(userOps,
                       called("placePiece",
                              canPlacePiece(userBoard, userPieces[type], position, variantIndex)))
  /\ UNCHANGED <<solverVars, appVars, geoType, geoShape, geoVariants>>

UserRemove(type) ==
  /\ Len(userOps) < MaxOps
  /\ userBoard' = removePiece(userBoard, userPieces[type])
  /\ userPieces' = [userPieces EXCEPT ![type].isPlaced = FALSE]
  /\ userOps' = Append(userOps, called("removePiece", userPieces[type].isPlaced))
  /\ UNCHANGED <<solverVars, appVars, geoType, geoShape, geoVariants>>

UserReset ==
  /\ Len(userOps) < MaxOps
  /\ userBoard' = resetBoard(userBoard)
  /\ userPieces' = [t \in UserTypes |-> [userPieces[t] EXCEPT !.isPlaced = FALSE]]
  /\ userOps' = Append(userOps, called("resetBoard", TRUE))
  /\ UNCHANGED <<solverVars, appVars, geoType, geoShape, geoVariants>>

BoardNext ==
  \/ \E position \in UserCells, state \in {"empty", "blocked", "occupied"} :
        UserSetCell(position, state)
  \/ \E type \in UserTypes, variantIndex \in UserVariants :
        \E px \in 0..2, py \in 0..3 : UserPlace(type, Pt(px, py), variantIndex)
  \/ \E type \in UserTypes : UserRemove(type)
  \/ UserReset

BoardSpec == BoardInit /\ [][BoardNext]_vars

\* C18: after any sequence of createBoard, setCellState, placePiece, removePiece and
\* resetBoard, for any blockedCells list, emptyCellCount is the number of cells whose state
\* is 'empty', so that isBoardComplete is true exactly when no cell is empty.
C18_EmptyCountExact ==
  /\ userBoard.emptyCellCount = Len(getEmptyCells(userBoard))
  /\ isBoardComplete(userBoard) <=> (getEmptyCells(userBoard) = <<>>)

\* C18 for configurations whose blocked cells are distinct cells of the board
C18_EmptyCountExactValid ==
  userBoard.config = feasibleConfig =>
     /\ userBoard.emptyCellCount = Len(getEmptyCells(userBoard))
     /\ isBoardComplete(userBoard) <=> (getEmptyCells(userBoard) = <<>>)

\* C18 for the configuration with a blocked cell out of bounds: createBoard counts right,
\* resetBoard does not
C18_EmptyCountExactOutside ==
  userBoard.config = outsideConfig =>
     userBoard.emptyCellCount = Len(getEmptyCells(userBoard))

\* C19: a placePiece that succeeds, followed by removePiece of the piece with isPlaced,
\* position and variantIndex set to the placement, restores every cell state and
\* emptyCellCount to their values before the placement.
C19_PlaceRemoveRestores ==
  [][\A type \in UserTypes :
        (~userPieces[type].isPlaced /\ userPieces'[type].isPlaced) =>
           /\ removePiece(userBoard', userPieces'[type]).emptyCellCount
                = userBoard.emptyCellCount
           /\ \A py \in DOMAIN userBoard.cells : \A px \in DOMAIN userBoard.cells[py] :
                 removePiece(userBoard', userPieces'[type]).cells[py][px].state
                   = userBoard.cells[py][px].state]_vars

\* a piece was laid in its second orientation on the new board and taken off again, and
\* the board is the new board
C19_Witness ==
  /\ userOps = <<called("createBoard", TRUE), called("placePiece", TRUE),
                 called("removePiece", TRUE)>>
  /\ \E type \in UserTypes : userPieces[type].variantIndex = 1
  /\ userBoard.emptyCellCount = createBoard(userBoard.config).emptyCellCount
  /\ \A py \in DOMAIN userBoard.cells : \A px \in DOMAIN userBoard.cells[py] :
        userBoard.cells[py][px].state = createBoard(userBoard.config).cells[py][px].state

\* buildMatrix has built the matrix for the board that the solve() in hand was given
MatrixBuilt ==
  /\ engine = "dancing-links" /\ solveCount >= 1
  /\ Len(getEmptyCells(heap[CallerRef])) >= RequiredCells

\* the nodes met from the first node of row rowId along the right links, six steps far
rowRing(m, rowId) ==
  LET first == m.ncols + 1 + 6 * rowId
      walk[k \in 0..6] == IF k = 0 THEN first ELSE m.R[walk[k - 1]]
  IN walk

\* C20: every row that buildMatrix creates is the row of a placement whose 5 cells are all
\* inside the board and all empty, and it is a ring of exactly 6 nodes: one in the column
\* of its piece type and one in the column of each of the 5 cells it covers.
C20_RowsAreLegalPlacements ==
  MatrixBuilt =>
     \A rowId \in 0..(matrix.nrows - 1) :
        /\ rowId \in DOMAIN rowToPlacement
        /\ Cardinality(placementCells(rowToPlacement[rowId])) = PieceCells
        /\ \A cell \in placementCells(rowToPlacement[rowId]) :
              /\ isPointInBounds(cell, heap[CallerRef].config)
              /\ heap[CallerRef].cells[cell.y][cell.x].state = "empty"
        /\ rowRing(matrix, rowId)[6] = rowRing(matrix, rowId)[0]
        /\ Cardinality({rowRing(matrix, rowId)[k] : k \in 0..5}) = 6
        /\ {matrix.colOf[rowRing(matrix, rowId)[k]] : k \in 0..5}
             = {indexOfType(getAllPentominoTypes, rowToPlacement[rowId].pieceType) + 1}
               \cup {Len(getAllPentominoTypes)
                       + cellToIndex(getEmptyCells(heap[CallerRef]), cell) + 1 :
                     cell \in placementCells(rowToPlacement[rowId])}
        /\ Cardinality({matrix.colOf[rowRing(matrix, rowId)[k]] : k \in 0..5}) = 6

\* buildMatrix has just made the rows for the board with the blocked cell in the middle
C20_Witness ==
  /\ MatrixBuilt /\ pc = "enter" /\ stepsExplored = 0 /\ Len(stack) = 1
  /\ heap[CallerRef] = createBoard(largeConfig)
  /\ matrix.nrows > 0

\* the placements a scan of every board position with canPlacePiece accepts
NaivePlacements(board) ==
  {pl \in [pieceType : Range(getAllPentominoTypes),
           position : {Pt(px, py) : px \in 0..(board.config.width - 1),
                                    py \in 0..(board.config.height - 1)},
           variantIndex : 0..7] :
     /\ pl.variantIndex < getPentominoVariantCount(pl.pieceType)
     /\ canPlacePiece(board, createPentominoPiece(pl.pieceType, solverPieceId[pl.pieceType]),
                      pl.position, pl.variantIndex)}

\* C21: the rows that the bounding-box restricted scan of buildMatrix makes are exactly the
\* placements (piece, variant, anchor) that a scan of every board position with
\* canPlacePiece accepts, each once.
C21_ScanMatchesNaive ==
  MatrixBuilt =>
     /\ {rowToPlacement[rowId] : rowId \in 0..(matrix.nrows - 1)}
          = NaivePlacements(heap[CallerRef])
     /\ matrix.nrows = Cardinality(NaivePlacements(heap[CallerRef]))

\* the matrix of the board with a blocked cell in the middle has been built
C21_Witness ==
  /\ MatrixBuilt /\ heap[CallerRef] = createBoard(largeConfig)
  /\ matrix.nrows = Cardinality(NaivePlacements(heap[CallerRef])) /\ matrix.nrows > 8

\* the columns in which row rowId of the matrix has a node
columnsOfRow(m, rowId) ==
  {m.colOf[node] : node \in (m.ncols + 1 + 6 * rowId)..(m.ncols + 6 + 6 * rowId)}

\* The exact covers of the matrix: the sets of rows that cover every column exactly once.
\* Every row has a node in exactly one piece column, so an exact cover has one row per
\* piece type.
ExactCovers(m) ==
  LET rows == 0..(m.nrows - 1)
      choices == {f \in [1..Len(getAllPentominoTypes) -> rows] :
                    /\ \A i \in DOMAIN f : i \in columnsOfRow(m, f[i])
                    /\ \A i, j \in DOMAIN f :
                          i # j => columnsOfRow(m, f[i]) \cap columnsOfRow(m, f[j]) = {}
                    /\ UNION {columnsOfRow(m, f[i]) : i \in DOMAIN f} = 1..m.ncols}
  IN {{f[i] : i \in DOMAIN f} : f \in choices}

\* a search of DancingLinksSolver over a matrix with rows has run to its end with no
\* limit, no deadline and no stop()
DlxCompleteRun ==
  /\ Returned /\ engine = "dancing-links" /\ result.success /\ ~shouldStop
  /\ config.maxSolutions = 0 /\ config.maxTime = 0 /\ matrix.nrows > 0

\* the recorded solutions are the exact covers of the matrix, each once
everyCoverOnce ==
  /\ TilingsOf(result.solutions)
       = {{rowToPlacement[rowId] : rowId \in exact} : exact \in ExactCovers(matrix)}
  /\ Len(result.solutions) = Cardinality(ExactCovers(matrix))

\* C22: run to completion with no solution limit, no time limit and no stop(), search
\* records every exact cover of the matrix exactly once.
C22_EveryCoverOnce == DlxCompleteRun => everyCoverOnce

\* C22, on a matrix that solve() has built for the board in hand: the search records
\* every exact cover exactly once.
C22_EveryCoverOnceBuilt == (DlxCompleteRun /\ MatrixBuilt) => everyCoverOnce

\* both exact covers of the matrix of the 3x4 board with two corners blocked are recorded
C22_Witness ==
  /\ DlxCompleteRun /\ MatrixBuilt /\ Cardinality(ExactCovers(matrix)) = 2
  /\ Len(result.solutions) = 2 /\ result.stepsExplored > 2

\* the columns linked in the header list, following right from column c
RECURSIVE linkedFrom(_, _)
linkedFrom(m, c) == IF c = header THEN {} ELSE {c} \cup linkedFrom(m, m.R[c])

linkedColumns(m) == linkedFrom(m, m.R[header])

\* the row nodes linked vertically in column c, following down from node
RECURSIVE nodesBelow(_, _, _)
nodesBelow(m, c, node) == IF node = c THEN {} ELSE {node} \cup nodesBelow(m, c, m.D[node])

\* cover(c) followed by uncover(c) leaves every link and every size of m as it was
coverUndone(m, c) == uncover(cover(m, c), c) = m

\* after cover(c): covering the other columns of a row of c, left to right, and then
\* uncovering them right to left, leaves every link and every size as it was
rowCoverUndone(m, c) ==
  LET covered == cover(m, c)
      undone(row) == LET deeper == coverRowColumns(covered, row, covered.R[row])
                     IN uncoverRowColumns(deeper, row, deeper.L[row]) = covered
  IN \A row \in nodesBelow(covered, c, covered.D[c]) : undone(row)

\* C23: uncover(c) is the exact inverse of cover(c): on every matrix the solver reaches
\* (also in the middle of a search), covering a column still in the header list, or that
\* column and then the other columns of one of its rows, and uncovering in reverse order
\* restores every left/right/up/down link and every column size; a search that has run to
\* its end leaves the matrix as buildMatrix built it.
C23_UncoverInvertsCover ==
  /\ (engine = "dancing-links" /\ matrix.ncols > 0) =>
        \A c \in linkedColumns(matrix) : coverUndone(matrix, c) /\ rowCoverUndone(matrix, c)
  /\ (DlxCompleteRun /\ MatrixBuilt) => matrix = buildMatrix(emptyMatrix, heap[CallerRef])

\* in the middle of a search, with columns covered and a column with rows still linked
C23_Witness ==
  /\ engine = "dancing-links" /\ Len(stack) >= 2 /\ MatrixBuilt
  /\ matrix # buildMatrix(emptyMatrix, heap[CallerRef])
  /\ \E c \in linkedColumns(matrix) :
        /\ matrix.size[c] >= 1
        /\ nodesBelow(cover(matrix, c), c, matrix.D[c]) # {}
        /\ coverUndone(matrix, c) /\ rowCoverUndone(matrix, c)

boardTriedOn ==
  IF pc = "resume"
  THEN removePiece(heap[workingBoard], pieces[stack[Len(stack)].pieceIndex + 1])
  ELSE heap[workingBoard]

\* a call of backtrack() with a piece to place is on top of the stack
PlacementDue ==
  /\ engine = "backtracking" /\ Running /\ stack # <<>>
  /\ stack[Len(stack)].pieceIndex < Len(pieces)

MaxCells == 3

\* the coordinates of the cells passed to normalizeShape
CoordRange == -1..2

\* the cell lists a caller passes: any order, any offset, repeated cells, the empty list
CellLists ==
  UNION {[1..n -> {Pt(x, y) : x \in CoordRange, y \in CoordRange}] : n \in 0..MaxCells}

\* a caller holds a cell list for which no bounds have been computed
NormInit ==
  /\ SolverUnused
  /\ geoType = undefined
  /\ geoShape \in {[cells |-> cells, bounds |-> [width |-> 0, height |-> 0]] :
                     cells \in CellLists}
  /\ geoVariants = <<>>
  /\ userBoard = noBoard
  /\ userPieces = <<>>
  /\ userOps = <<>>
  /\ AppIdle

\* shape = normalizeShape(shape.cells)
GeoNormalize ==
  /\ geoShape' = normalizeShape(geoShape.cells)
  /\ UNCHANGED <<solverVars, appVars, geoType, geoVariants, userBoard, userPieces, userOps>>

NormNext ==
  \/ GeoNormalize
  \/ GeoRotate
  \/ GeoFlip

NormSpec == NormInit /\ [][NormNext]_vars

\* C26: normalizeShape is idempotent: for every cell list, normalizing the cells of
\* normalizeShape(cells) gives the same cells in the same order and the same bounds.
C26_NormalizeIdempotent ==
  LET once == normalizeShape(geoShape.cells)
      twice == normalizeShape(once.cells)
  IN twice.cells = once.cells /\ twice.bounds = once.bounds

\* normalizeShape has returned a shape of three different cells, not in reading order, in
\* a box at least 2 wide and 2 high; normalizing its cells returns the same shape
C26_Witness ==
  /\ Len(geoShape.cells) = 3 /\ Cardinality(Range(geoShape.cells)) = 3
  /\ geoShape.bounds.width >= 2 /\ geoShape.bounds.height >= 2
  /\ ~CellLeq(geoShape.cells[1], geoShape.cells[2])
  /\ normalizeShape(geoShape.cells) = geoShape

(***************************************************************************)
(* The callers of SolutionCache.  A caller makes a few get and set calls   *)
(* on two boards, with waits around maxAge in between, and then stores the *)
(* solutions of one new board after the other until the cache is full and  *)
(* one more.  A millisecond passes with every call.                        *)
(***************************************************************************)
\* number of get / set calls made before the series of new boards
MaxCacheCalls == 3

\* the boards of the first calls
FirstBoards == 1..2

\* the boards of the series: one for every place in the cache and one more
SeriesBoards == 3..(maxCacheSize + 3)

\* the k-th board: 3 wide, k high, no blocked cell
cacheBoard(k) == createBoard([width |-> 3, height |-> k, blockedCells |-> <<>>])

\* the solution list stored for the k-th board
cacheSolutions(k) ==
  <<[id |-> 1, placements |-> <<>>, steps |-> <<>>, solvingTime |-> k]>>

\* a call of get or set: its key, the time of the call, the solutions passed or returned
cacheCall(name, key, time, value) ==
  [op |-> name, key |-> key, time |-> time, value |-> value]

CacheInit ==
  /\ SolverUnused
  /\ geoType = undefined
  /\ geoShape = normalizeShape(<<>>)
  /\ geoVariants = <<>>
  /\ userBoard = noBoard
  /\ userPieces = <<>>
  /\ userOps = <<>>
  /\ AppIdle

\* this.cache.get(board, pieceTypes)
CacheGet(k) ==
  /\ Len(userOps) < MaxCacheCalls
  /\ LET got == cacheGet(cache, cacheBoard(k), getAllPentominoTypes, now)
     IN /\ cache' = got.cache
        /\ userOps' = Append(userOps,
                             cacheCall("get",
                                       generateCacheKey(cacheBoard(k), getAllPentominoTypes),
                                       now, got.value))
  /\ now' = now + 1
  /\ UNCHANGED <<heap, engine, config, startTime, solutions, steps, stepsExplored, shouldStop,
                 matrix, rowToPlacement, pieces, solution, workingBoard, stack, pc, result,
                 solveCount>>
  /\ UNCHANGED <<geoType, geoShape, geoVariants, userBoard, userPieces, appVars>>

\* this.cache.set(board, pieceTypes, solutions)
CacheSet(k) ==
  /\ \/ Len(userOps) < MaxCacheCalls /\ k \in FirstBoards
     \/ /\ Len(userOps) >= MaxCacheCalls
        /\ Len(userOps) < MaxCacheCalls + maxCacheSize + 1
        /\ k = 3 + Len(userOps) - MaxCacheCalls
  /\ cache' = cacheSet(cache, cacheBoard(k), getAllPentominoTypes, cacheSolutions(k), now)
  /\ userOps' = Append(userOps,
                       cacheCall("set", generateCacheKey(cacheBoard(k), getAllPentominoTypes),
                                 now, cacheSolutions(k)))
  /\ now' = now + 1
  /\ UNCHANGED <<heap, engine, config, startTime, solutions, steps, stepsExplored, shouldStop,
                 matrix, rowToPlacement, pieces, solution, workingBoard, stack, pc, result,
                 solveCount>>
  /\ UNCHANGED <<geoType, geoShape, geoVariants, userBoard, userPieces, appVars>>

\* the caller waits d milliseconds between two of its first calls
CacheWait(d) ==
  /\ userOps # <<>>
  /\ Len(userOps) < MaxCacheCalls
  /\ now < maxAge - 1
  /\ now' = now + d
  /\ UNCHANGED <<heap, engine, config, startTime, solutions, steps, stepsExplored, shouldStop,
                 cache, matrix, rowToPlacement, pieces, solution, workingBoard, stack, pc,
                 result, solveCount>>
  /\ UNCHANGED <<utilVars, appVars>>

\* this.cache.clear()
CacheClear ==
  /\ userOps # <<>>
  /\ Len(userOps) < MaxCacheCalls
  /\ cache' = <<>>
  /\ userOps' = Append(userOps, cacheCall("clear", undefined, now, undefined))
  /\ now' = now + 1
  /\ UNCHANGED <<heap, engine, config, startTime, solutions, steps, stepsExplored, shouldStop,
                 matrix, rowToPlacement, pieces, solution, workingBoard, stack, pc, result,
                 solveCount>>
  /\ UNCHANGED <<geoType, geoShape, geoVariants, userBoard, userPieces, appVars>>

CacheNext ==
  \/ \E k \in FirstBoards : CacheGet(k)
  \/ \E k \in FirstBoards \cup SeriesBoards : CacheSet(k)
  \/ \E d \in {maxAge - 1, maxAge} : CacheWait(d)
  \/ CacheClear

CacheSpec == CacheInit /\ [][CacheNext]_vars

\* the keys of the entries of a cache
cacheKeys(entries) == {entries[i].key : i \in 1..Len(entries)}

\* the time of the last set of key in the log, or of its last get that returned solutions
lastUse(log, key) ==
  MaxOf({log[i].time : i \in {j \in 1..Len(log) :
                                 log[j].key = key /\ log[j].value # null}})

\* the step is a set on a full cache
SetOnFullCache ==
  /\ Len(cache) >= maxCacheSize
  /\ Len(userOps') = Len(userOps) + 1
  /\ userOps'[Len(userOps')].op = "set"

\* C27: when set is called on a full cache, the entries evicted are the least recently used
\* ones: no entry is evicted while an entry whose last get / set is older stays.
C27_EvictsLeastRecentlyUsed ==
  [][SetOnFullCache =>
       \A gone \in cacheKeys(cache) \ cacheKeys(cache') :
          \A kept \in cacheKeys(cache) \cap cacheKeys(cache') :
             lastUse(userOps, gone) <= lastUse(userOps, kept)]_vars

\* C27, what cleanup does: among the entries that have not expired, none is evicted while
\* an entry with fewer hits stays.
C27_EvictsLeastHit ==
  [][SetOnFullCache =>
       \A i, j \in 1..Len(cache) :
          (/\ cache[i].key \notin cacheKeys(cache')
           /\ cache[j].key \in cacheKeys(cache')
           /\ ~(now - cache[i].timestamp > maxAge))
          => cache[i].hitCount <= cache[j].hitCount]_vars

\* a set on a full cache has evicted entries
C27_Witness ==
  /\ userOps # <<>> /\ userOps[Len(userOps)].op = "set"
  /\ Len(userOps) > maxCacheSize
  /\ Len(cache) < maxCacheSize
  /\ \E i \in 1..Len(cache) : cache[i].hitCount > 0

\* the step is a get of a key that has an entry in the cache
GetOfStoredKey ==
  /\ Len(userOps') = Len(userOps) + 1
  /\ userOps'[Len(userOps')].op = "get"
  /\ userOps'[Len(userOps')].key \in cacheKeys(cache)

\* the last set of key in the log
lastSet(log, key) ==
  log[MaxOf({i \in 1..Len(log) : log[i].key = key /\ log[i].op = "set"})]

\* C28: get never returns an entry older than maxAge: if more than maxAge has elapsed since
\* the entry was stored, get returns null and removes the entry; otherwise it returns the
\* stored solutions and increments the hit count of the entry.
C28_GetHonoursMaxAge ==
  [][GetOfStoredKey =>
       LET call == userOps'[Len(userOps')]
           stored == lastSet(userOps, call.key)
           i == cacheIndex(cache, call.key)
       IN IF call.time - stored.time > maxAge
          THEN call.value = null /\ call.key \notin cacheKeys(cache')
          ELSE /\ call.value = stored.value
               /\ call.key \in cacheKeys(cache')
               /\ cache'[cacheIndex(cache', call.key)].hitCount = cache[i].hitCount + 1
               /\ cache'[cacheIndex(cache', call.key)].timestamp = stored.time]_vars

\* an entry was returned when exactly maxAge old and another get found it expired a
\* millisecond later
C28_Witness ==
  /\ Len(userOps) = 3
  /\ userOps[1].op = "set" /\ userOps[2].op = "get" /\ userOps[3].op = "get"
  /\ userOps[2].key = userOps[1].key /\ userOps[3].key = userOps[1].key
  /\ userOps[2].time - userOps[1].time = maxAge /\ userOps[2].value = userOps[1].value
  /\ userOps[3].time - userOps[1].time = maxAge + 1 /\ userOps[3].value = null
  /\ cache = <<>>

(***************************************************************************)
(* A search of an instance without a deadline, during which time passes.   *)
(***************************************************************************)
\* time passes during a solve() of an instance whose maxTime is 0; the clock is read at
\* the entries of backtrack() / search() and when solve() returns
Pass ==
  /\ now < MaxClock
  /\ config.maxTime = 0
  /\ pc = "enter" \/ (pc = "resume" /\ stack = <<>>)
  /\ now' = now + 1
  /\ UNCHANGED <<heap, engine, config, startTime, solutions, steps, stepsExplored,
                 shouldStop, cache, matrix, rowToPlacement, pieces, solution, workingBoard,
                 stack, pc, result, solveCount>>
  /\ UNCHANGED <<utilVars, appVars>>

DeadlineNext ==
  \/ \E board \in ProgressBoards : BtSolve(board)
  \/ BtEnter
  \/ BtResume
  \/ BtReturn
  \/ \E board \in ProgressBoards : DlxSolve(board)
  \/ DlxEnter
  \/ DlxResume
  \/ DlxReturn
  \/ DelayElapsed
  \/ Stop
  \/ Tick
  \/ Pass

DeadlineSpec == Init /\ [][DeadlineNext]_vars

\* C29: with maxTime equal to 0 (or unset) the search has no deadline: however much time
\* passes, solve() never takes the timeout path; a solve() that searched ends with success
\* and, unless stop() was called or maxSolutions was reached, with the search exhausted.
C29_NoDeadlineWithoutMaxTime ==
  config.maxTime = 0 =>
     /\ result.error # "Solver timed out"
     /\ (Returned /\ ~CacheHit) =>
           /\ result.success /\ result.error = undefined
           /\ ~shouldStop =>
                 Len(result.solutions)
                   = expectedCount(config, Cardinality(Tilings(heap[CallerRef])))

\* a search without a deadline has run to its end while the clock advanced by MaxClock
C29_Witness ==
  /\ config.maxTime = 0 /\ config.maxSolutions = 0
  /\ Returned /\ ~CacheHit /\ ~shouldStop
  /\ result.totalTime = MaxClock /\ result.stepsExplored > 2
  /\ Len(result.solutions) = 2
  /\ \E i \in 1..2 : result.solutions[i].solvingTime > 0

\* What a new DancingLinksSolver without limit and deadline returns for a board, as sets of
\* placements: the tilings of the board when it has the cells the pieces need, and one
\* solution without placement when it has fewer (buildMatrix returns early and search
\* finds the header alone).
freshSolutions(board) ==
  IF Len(getEmptyCells(board)) < RequiredCells THEN {{}} ELSE Tilings(board)

\* a solve() of a DancingLinksSolver without limit and deadline has returned, not stopped
DlxUnlimitedRun ==
  /\ Returned /\ engine = "dancing-links" /\ ~shouldStop
  /\ config.maxSolutions = 0 /\ config.maxTime = 0

\* the result is the result of a new instance for the board passed
resultAsFresh ==
  /\ result.success
  /\ TilingsOf(result.solutions) = freshSolutions(heap[CallerRef])
  /\ Len(result.solutions) = Cardinality(freshSolutions(heap[CallerRef]))

\* C30: the result of DancingLinksSolver.solve(board) depends only on the board and the
\* config: on an instance that has solved another board before, solve() returns the
\* solutions a new instance returns.
C30_ResultOfBoardOnly == DlxUnlimitedRun => resultAsFresh

\* C30, for the first solve() of an instance: the result is freshSolutions of the board.
C30_FirstSolve == (DlxUnlimitedRun /\ solveCount = 1) => resultAsFresh

\* C30, for a later solve() on a board with the cells the pieces need: buildMatrix builds
\* the matrix anew and the result is the result of a new instance.
C30_LaterSolveBuilt == (DlxUnlimitedRun /\ solveCount > 1 /\ MatrixBuilt) => resultAsFresh

\* a second solve() on a board with two tilings has returned both
C30_Witness ==
  /\ DlxUnlimitedRun /\ solveCount = 2 /\ MatrixBuilt
  /\ Len(result.solutions) = 2 /\ resultAsFresh

\* C31: a cache hit in BacktrackingSolver.solve returns only solutions that are valid for
\* the board passed, also when cells of the board already hold placed pieces.
C31_CacheHitValid ==
  CacheHit => \A i \in 1..Len(result.solutions) :
                 ValidSolution(result.solutions[i], heap[CallerRef])

\* C31, for the boards without a placed piece: the solutions of a cache hit are valid for
\* the board passed.
C31_CacheHitValidUnoccupied ==
  (CacheHit /\ cellsWithState(heap[CallerRef], "occupied") = {}) =>
     \A i \in 1..Len(result.solutions) : ValidSolution(result.solutions[i], heap[CallerRef])

\* a second solve() on a board without placed pieces was answered from the cache
C31_Witness ==
  /\ CacheHit /\ solveCount = 2 /\ cellsWithState(heap[CallerRef], "occupied") = {}
  /\ Len(result.solutions) = 2
  /\ \A i \in 1..2 : ValidSolution(result.solutions[i], heap[CallerRef])

\* C32: after any sequence of set, get and clear calls the number of cached entries never
\* exceeds maxCacheSize.
C32_SizeWithinMax == Len(cache) <= maxCacheSize

\* a set on a full cache has made room and stored its entry
C32_Witness ==
  /\ Len(userOps) > maxCacheSize
  /\ userOps[Len(userOps)].op = "set"
  /\ userOps[Len(userOps)].key \in cacheKeys(cache)
  /\ Len(cache) = maxCacheSize - toRemove + 1

\* the cells of the board whose record differs between two boards of the same size
changedCells(before, after) ==
  {c \in {Pt(cx, cy) : cx \in 0..(before.config.width - 1),
                       cy \in 0..(before.config.height - 1)} :
     after.cells[c.y][c.x] # before.cells[c.y][c.x]}

\* the step is a call of the board-utils function name
UserCalls(name) ==
  /\ Len(userOps') = Len(userOps) + 1
  /\ userOps'[Len(userOps')].op = name

C38_MatrixRestored ==
  (Returned /\ MatrixBuilt) =>
     /\ matrix = buildMatrix(emptyMatrix, heap[CallerRef])
     /\ solution = <<>>

\* C38, for a search that is exhausted: after solve() the matrix is as buildMatrix built
\* it and the solution stack is empty.
C38_MatrixRestoredExhausted ==
  (Returned /\ MatrixBuilt /\ ~shouldStop) =>
     /\ matrix = buildMatrix(emptyMatrix, heap[CallerRef])
     /\ solution = <<>>

\* an exhausted search that recorded two solutions has left the matrix as it was built
C38_Witness ==
  /\ Returned /\ MatrixBuilt /\ ~shouldStop /\ Len(result.solutions) = 2
  /\ matrix = buildMatrix(emptyMatrix, heap[CallerRef]) /\ solution = <<>>
  /\ matrix.size[chooseColumn(matrix)] >= 1

\* ---------------------------------------------------------------------------------------
\* useSolver: the hook that creates a solver per solve() and polls its progress.
\* A search is numbered by the order of its solve(); the timer a solve() sets carries the
\* number of its search.

\* bound: the solve() calls of one behaviour
MaxSearches == 3

\* bound: the steps one search reports
MaxSearchSteps == 2

\* the solver instance SolverFactory.createSolver returns, with the promise of its solve()
newSearch == [shouldStop |-> FALSE, stepsExplored |-> 0, settled |-> FALSE]

\* the searches whose solve() has not returned
inFlight == {n \in 1..Len(searches) : ~searches[n].settled}

HookInit == SolverUnused /\ UtilIdle /\ AppIdle

\* solve(board): returns at once while isLoading; otherwise sets the states, creates the
\* solver, sets the progress timer and awaits solve(board)
HookSolve ==
  /\ ~hook.isLoading
  /\ Len(searches) < MaxSearches
  /\ LET n == Len(searches) + 1
     IN /\ searches' = Append(searches, newSearch)
        /\ timers' = timers \cup {n}
        /\ hook' = [hook EXCEPT !.isLoading = TRUE, !.result = 0, !.progress = 0,
                                !.solverRef = n, !.progressIntervalRef = n]
  /\ UNCHANGED <<solverVars, utilVars, progressive, wasm>>

\* stop(): stops the solver of solverRef, clears the timer of progressIntervalRef and
\* sets isLoading to false
HookStop ==
  /\ searches # <<>>
  /\ searches' = IF hook.solverRef # 0
                 THEN [searches EXCEPT ![hook.solverRef].shouldStop = TRUE]
                 ELSE searches
  /\ timers' = timers \ {hook.progressIntervalRef}
  /\ hook' = [hook EXCEPT !.progressIntervalRef = 0, !.isLoading = FALSE]
  /\ UNCHANGED <<solverVars, utilVars, progressive, wasm>>

\* a search that is not stopped explores one more step
HookSearchStep(n) ==
  /\ n \in inFlight
  /\ ~searches[n].shouldStop
  /\ searches[n].stepsExplored < MaxSearchSteps
  /\ searches' = [searches EXCEPT ![n].stepsExplored = @ + 1]
  /\ UNCHANGED <<solverVars, utilVars, hook, timers, progressive, wasm>>

\* the callback of a timer: if solverRef.current is set, its getProgress() becomes the
\* progress state
HookProgressTick(t) ==
  /\ t \in timers
  /\ hook.solverRef # 0
  /\ hook' = [hook EXCEPT !.progress = searches[hook.solverRef].stepsExplored]
  /\ UNCHANGED <<solverVars, utilVars, searches, timers, progressive, wasm>>

\* the solve() of search n returns: setResult, then the finally block of the hook's solve
HookComplete(n) ==
  /\ n \in inFlight
  /\ searches' = [searches EXCEPT ![n].settled = TRUE]
  /\ timers' = timers \ {hook.progressIntervalRef}
  /\ hook' = [hook EXCEPT !.result = n, !.isLoading = FALSE, !.solverRef = 0,
                          !.progressIntervalRef = 0]
  /\ UNCHANGED <<solverVars, utilVars, progressive, wasm>>

HookNext ==
  \/ HookSolve
  \/ HookStop
  \/ \E n \in 1..MaxSearches : HookSearchStep(n)
  \/ \E t \in 1..MaxSearches : HookProgressTick(t)
  \/ \E n \in 1..MaxSearches : HookComplete(n)

HookSpec == HookInit /\ [][HookNext]_vars

\* search n is still running and was not stopped
runningUnstopped(n) == n \in inFlight /\ ~searches[n].shouldStop

\* the hook's state belongs to search n
hookServes(n) ==
  /\ hook.isLoading
  /\ hook.solverRef = n
  /\ hook.progressIntervalRef = n
  /\ n \in timers

\* C33: at most one search is in flight at a time, and while a search runs without having
\* been stopped the hook's state is its own: isLoading is true, solverRef is its solver and
\* its progress timer is set; the completion of another search takes none of this away.
C33_OneSearchOwnState ==
  /\ Cardinality(inFlight) <= 1
  /\ \A n \in 1..Len(searches) : runningUnstopped(n) => hookServes(n)

\* C33, without stop(): as long as no search was stopped, one search at most is in flight
\* and the hook's state is that of the running search.
C33_OneSearchWithoutStop ==
  (\A n \in 1..Len(searches) : ~searches[n].shouldStop) => C33_OneSearchOwnState

\* a second search runs and the first, stopped one has returned late
C33_Witness ==
  /\ Len(searches) >= 2
  /\ searches[1].shouldStop /\ searches[1].settled
  /\ runningUnstopped(2)
  /\ ~hook.isLoading /\ hook.solverRef = 0 /\ 2 \notin timers

\* ---------------------------------------------------------------------------------------
\* ProgressiveSolver (solvers/ProgressiveSolver.ts): a board, the pieces and a steps log
\* that is stepped through.

\* the id initialize() gives the piece of a type
progressivePieceId(type) == "progressive-" \o type

\* this.pieces after initialize()
progressivePieces ==
  [i \in 1..Len(getAllPentominoTypes) |->
     createPentominoPiece(getAllPentominoTypes[i],
                          progressivePieceId(getAllPentominoTypes[i]))]

\* this.pieces.find(p => p.type === type), as an index; 0 when there is none
findPiece(ps, type) ==
  IF \E i \in 1..Len(ps) : ps[i].type = type
  THEN CHOOSE i \in 1..Len(ps) :
         ps[i].type = type /\ \A j \in 1..(i - 1) : ps[j].type # type
  ELSE 0

\* applyStep on the board and the pieces of st; thrown tells that it threw
applyStep(st, step) ==
  LET i == findPiece(st.pieces, step.pieceType)
  IN IF i = 0 THEN [st EXCEPT !.thrown = TRUE]
     ELSE IF step.isPlacement
     THEN LET piece == [st.pieces[i] EXCEPT !.variantIndex = step.variantIndex,
                                            !.position = step.position]
              success == canPlacePiece(st.board, piece, step.position, step.variantIndex)
          IN [board |-> placePiece(st.board, piece, step.position, step.variantIndex),
              pieces |-> [st.pieces EXCEPT ![i] =
                            [piece EXCEPT !.isPlaced = success \/ @]],
              thrown |-> ~success]
     ELSE IF st.pieces[i].isPlaced
     THEN [board |-> removePiece(st.board, st.pieces[i]),
           pieces |-> [st.pieces EXCEPT ![i].isPlaced = FALSE],
           thrown |-> FALSE]
     ELSE [st EXCEPT !.thrown = FALSE]

\* undoStep on the board and the pieces of st
undoStep(st, step) ==
  LET i == findPiece(st.pieces, step.pieceType)
  IN IF i = 0 THEN [st EXCEPT !.thrown = TRUE]
     ELSE IF step.isPlacement
     THEN IF st.pieces[i].isPlaced
          THEN [board |-> removePiece(st.board, st.pieces[i]),
                pieces |-> [st.pieces EXCEPT ![i].isPlaced = FALSE],
                thrown |-> FALSE]
          ELSE [st EXCEPT !.thrown = FALSE]
     ELSE LET piece == [st.pieces[i] EXCEPT !.variantIndex = step.variantIndex,
                                            !.position = step.position]
              success == canPlacePiece(st.board, piece, step.position, step.variantIndex)
          IN [board |-> placePiece(st.board, piece, step.position, step.variantIndex),
              pieces |-> [st.pieces EXCEPT ![i] =
                            [piece EXCEPT !.isPlaced = success \/ @]],
              thrown |-> FALSE]

\* applyStep for the steps i..k of a log in order, stopping at the first that throws
RECURSIVE replaySteps(_, _, _, _)
replaySteps(st, stepLog, i, k) ==
  IF i > k \/ st.thrown THEN st
  ELSE replaySteps(applyStep(st, stepLog[i]), stepLog, i + 1, k)

\* the steps 1..k of a log replayed on a copy of a board with the pieces of initialize()
replayOn(board, stepLog, k) ==
  replaySteps([board |-> board, pieces |-> progressivePieces, thrown |-> FALSE],
              stepLog, 1, k)

\* the states of the cells of a board or of a recorded boardState
cellStates(cells) ==
  [y \in DOMAIN cells |-> [x \in DOMAIN cells[y] |-> cells[y][x].state]]

\* solve() of a BacktrackingSolver with trackSteps returned at least one solution
TrackedSolution ==
  /\ Returned
  /\ engine = "backtracking"
  /\ config.trackSteps
  /\ Len(result.solutions) > 0

\* the solutions returned were produced by a search on the board passed to this solve()
SearchedSolution == TrackedSolution /\ ~CacheHit

\* C35: the steps of the first solution a BacktrackingSolver with trackSteps produced by
\* its search, replayed with applyStep on a copy of the board that was passed to solve(),
\* never throw; after each step k the states of the cells are those of the boardState
\* recorded in step k; and after the last step every piece is placed and the board is
\* complete.
C35_ReplayReproducesLog ==
  SearchedSolution =>
    LET stepLog == result.solutions[1].steps
        final == replayOn(heap[CallerRef], stepLog, Len(stepLog))
    IN /\ \A k \in 1..Len(stepLog) :
            LET st == replayOn(heap[CallerRef], stepLog, k)
            IN /\ ~st.thrown
               /\ cellStates(st.board.cells) = cellStates(stepLog[k].boardState)
       /\ \A i \in 1..Len(final.pieces) : final.pieces[i].isPlaced
       /\ isBoardComplete(final.board)

\* C35 for every solution returned, those taken from the cache included
C35_ReplayReproducesAnyLog ==
  TrackedSolution =>
    LET stepLog == result.solutions[1].steps
    IN \A k \in 1..Len(stepLog) : ~replayOn(heap[CallerRef], stepLog, k).thrown

\* a search returned a first solution whose log holds placements and a backtrack step
C35_Witness ==
  /\ SearchedSolution
  /\ \E k \in 1..Len(result.solutions[1].steps) :
        ~result.solutions[1].steps[k].isPlacement
  /\ result.solutions[1].steps[Len(result.solutions[1].steps)].isPlacement
  /\ isBoardComplete(replayOn(heap[CallerRef], result.solutions[1].steps,
                              Len(result.solutions[1].steps)).board)

\* ---------------------------------------------------------------------------------------
\* The ProgressiveSolver as an object that is called from event handlers.  nextStep,
\* previousStep and jumpToStep await applyStep and undoStep only, which wait for nothing:
\* each runs to its end before the next event.  startProgressive awaits the solve() of a
\* new BacktrackingSolver, which works through timers: other calls come in between.  The
\* solver of the model runs one solve() at a time; a solve() that settled is kept in
\* settled until startProgressive continues with it, so that a second startProgressive may
\* be under way while the first has not continued.

\* bound: the largest index jumpToStep is called with
MaxJump == 3

\* bound: the calls made on one ProgressiveSolver
MaxProgressiveCalls == 6

\* a startProgressive() has not returned yet
Outstanding == progressive.awaiting \/ progressive.settled # <<>>

\* one more call is made on the ProgressiveSolver; overlapped remembers whether a call was
\* ever made while a startProgressive() had not returned
Called(p) == [p EXCEPT !.calls = @ + 1, !.overlapped = @ \/ Outstanding]

\* createEmptyBoard(): the board of the constructor
createEmptyBoard == createBoard([width |-> 8, height |-> 8, blockedCells |-> <<>>])

\* two boards the catalog tiles, the first with a longer steps log than the second
longLogConfig == [width |-> 3, height |-> 4, blockedCells |-> <<Pt(2, 0), Pt(1, 1)>>]
shortLogConfig == [width |-> 3, height |-> 4, blockedCells |-> <<Pt(0, 0), Pt(1, 0)>>]

ProgressiveBoards == {createBoard(longLogConfig), createBoard(shortLogConfig)}

\* the call that was made last: its name, the step index it was given (0 if it takes
\* none) and what it returned
returnsOn(name, arg, returned) == [name |-> name, arg |-> arg, returned |-> returned]

returns(name, returned) == returnsOn(name, 0, returned)

\* new ProgressiveSolver(config), with no BacktrackingSolver created yet
ProgressiveInit ==
  /\ SolverInit
  /\ engine = "backtracking"
  /\ config = [maxSolutions |-> 1, maxTime |-> 0, trackSteps |-> TRUE]
  /\ UtilIdle
  /\ hook = hookIdle
  /\ searches = <<>>
  /\ timers = {}
  /\ wasm = wasmIdle
  /\ progressive = [progressiveIdle EXCEPT !.board = createEmptyBoard,
                                           !.last = returns("constructor", "void")]

\* initialize(board)
ProgInitialize(board) ==
  /\ progressive.calls < MaxProgressiveCalls
  /\ progressive' = [progressive EXCEPT !.calls = @ + 1,
                                        !.overlapped = @ \/ Outstanding,
                                        !.board = cloneBoardCopy(board),
                                        !.pieces = progressivePieces,
                                        !.currentStep = 0,
                                        !.steps = <<>>,
                                        !.isActive = FALSE,
                                        !.last = returns("initialize", "void")]
  /\ UNCHANGED <<solverVars, utilVars, hook, searches, timers, wasm>>

\* startProgressive() on an active solver: throws
ProgStartActive ==
  /\ progressive.calls < MaxProgressiveCalls
  /\ progressive.isActive
  /\ progressive' = [progressive EXCEPT !.calls = @ + 1,
                                        !.overlapped = @ \/ Outstanding,
                                        !.last = returns("startProgressive", "thrown")]
  /\ UNCHANGED <<solverVars, utilVars, hook, searches, timers, wasm>>

\* startProgressive() up to its await: the fields are set and solve(this.board) is called
\* on a new BacktrackingSolver
ProgStart ==
  /\ progressive.calls < MaxProgressiveCalls
  /\ ~progressive.isActive
  /\ ~progressive.awaiting
  /\ BtSolveCall(progressive.board)
  /\ progressive' = [progressive EXCEPT !.calls = @ + 1,
                                        !.overlapped = @ \/ Outstanding,
                                        !.isActive = TRUE,
                                        !.currentStep = 0,
                                        !.steps = <<>>,
                                        !.awaiting = TRUE,
                                        !.last = returns("startProgressive", "pending")]
  /\ UNCHANGED <<utilVars, hook, searches, timers, wasm>>

\* the promise of solve() settles; the solver, which nothing else refers to, is dropped
ProgSettle ==
  /\ progressive.awaiting
  /\ Returned
  /\ progressive' = [progressive EXCEPT !.awaiting = FALSE,
                                        !.settled = Append(@, result)]
  /\ pc' = "idle"
  /\ result' = noResult
  /\ cache' = <<>>
  /\ UNCHANGED <<now, heap, engine, config, startTime, solutions, steps, stepsExplored,
                 shouldStop, matrix, rowToPlacement, pieces, solution, workingBoard, stack,
                 solveCount>>
  /\ UNCHANGED <<utilVars, hook, searches, timers, wasm>>

\* startProgressive() after its await, for the i-th solve() that settled
ProgContinue(i) ==
  /\ i \in 1..Len(progressive.settled)
  /\ LET solved == progressive.settled[i]
         rest == [k \in 1..(Len(progressive.settled) - 1) |->
                    IF k < i THEN progressive.settled[k] ELSE progressive.settled[k + 1]]
     IN progressive' =
          IF solved.success /\ Len(solved.solutions) > 0
          THEN [progressive EXCEPT !.steps = solved.solutions[1].steps,
                                   !.settled = rest,
                                   !.last = returns("startProgressive", "void")]
          ELSE [progressive EXCEPT !.isActive = FALSE,
                                   !.settled = rest,
                                   !.last = returns("startProgressive", "thrown")]
  /\ UNCHANGED <<solverVars, utilVars, hook, searches, timers, wasm>>

\* the board and the pieces applyStep and undoStep work on
stepState(p) == [board |-> p.board, pieces |-> p.pieces, thrown |-> FALSE]

\* nextStep()
ProgNextStep ==
  /\ progressive.calls < MaxProgressiveCalls
  /\ progressive' = Called(
       IF ~progressive.isActive \/ progressive.currentStep >= Len(progressive.steps)
       THEN [progressive EXCEPT !.last = returns("nextStep", "false")]
       ELSE LET st == applyStep(stepState(progressive),
                                progressive.steps[progressive.currentStep + 1])
            IN IF st.thrown
               THEN [progressive EXCEPT !.board = st.board, !.pieces = st.pieces,
                                        !.last = returns("nextStep", "false")]
               ELSE [progressive EXCEPT
                       !.board = st.board, !.pieces = st.pieces,
                       !.currentStep = @ + 1,
                       !.isActive = progressive.currentStep + 1 < Len(progressive.steps),
                       !.last = returns("nextStep", "true")])
  /\ UNCHANGED <<solverVars, utilVars, hook, searches, timers, wasm>>

\* previousStep()
ProgPreviousStep ==
  /\ progressive.calls < MaxProgressiveCalls
  /\ progressive' = Called(
       IF ~progressive.isActive \/ progressive.currentStep <= 0
       THEN [progressive EXCEPT !.last = returns("previousStep", "false")]
       ELSE IF progressive.currentStep > Len(progressive.steps)
       THEN \* this.steps[this.currentStep] is undefined: undoStep throws on step.pieceType
            [progressive EXCEPT !.currentStep = @ - 1,
                                !.last = returns("previousStep", "false")]
       ELSE LET st == undoStep(stepState(progressive),
                               progressive.steps[progressive.currentStep])
            IN [progressive EXCEPT !.board = st.board, !.pieces = st.pieces,
                                   !.currentStep = @ - 1,
                                   !.last = returns("previousStep",
                                                    IF st.thrown THEN "false" ELSE "true")])
  /\ UNCHANGED <<solverVars, utilVars, hook, searches, timers, wasm>>

\* the private resetBoard(): the occupied cells get state 'empty' and no pieceType, their
\* pieceId and the emptyCellCount stay; the pieces are taken off
progressiveResetBoard(st) ==
  [board |-> [st.board EXCEPT !.cells =
                [y \in DOMAIN st.board.cells |->
                   [x \in DOMAIN st.board.cells[y] |->
                      IF st.board.cells[y][x].state \notin {"empty", "blocked"}
                      THEN [st.board.cells[y][x] EXCEPT !.state = "empty",
                                                        !.pieceType = undefined]
                      ELSE st.board.cells[y][x]]]],
   pieces |-> [i \in 1..Len(st.pieces) |->
                 [st.pieces[i] EXCEPT !.isPlaced = FALSE, !.position = origin]],
   thrown |-> FALSE]

\* jumpToStep(stepIndex)
ProgJumpToStep(stepIndex) ==
  /\ progressive.calls < MaxProgressiveCalls
  /\ progressive' = Called(
       IF \/ ~progressive.isActive
          \/ stepIndex < 0
          \/ stepIndex > Len(progressive.steps)
       THEN [progressive EXCEPT !.last = returnsOn("jumpToStep", stepIndex, "false")]
       ELSE LET st == replaySteps(progressiveResetBoard(stepState(progressive)),
                                  progressive.steps, 1, stepIndex)
            IN IF st.thrown
               THEN [progressive EXCEPT !.board = st.board, !.pieces = st.pieces,
                                        !.last = returnsOn("jumpToStep", stepIndex, "thrown")]
               ELSE [progressive EXCEPT !.board = st.board, !.pieces = st.pieces,
                                        !.currentStep = stepIndex,
                                        !.last = returnsOn("jumpToStep", stepIndex, "true")])
  /\ UNCHANGED <<solverVars, utilVars, hook, searches, timers, wasm>>

\* stop()
ProgStop ==
  /\ progressive.calls < MaxProgressiveCalls
  /\ progressive' = [progressive EXCEPT !.calls = @ + 1,
                                        !.overlapped = @ \/ Outstanding,
                                        !.isActive = FALSE,
                                        !.last = returns("stop", "void")]
  /\ UNCHANGED <<solverVars, utilVars, hook, searches, timers, wasm>>

ProgressiveNext ==
  \/ \E board \in ProgressiveBoards : ProgInitialize(board)
  \/ ProgStartActive
  \/ ProgStart
  \/ BtEnter
  \/ BtResume
  \/ BtReturn
  \/ DelayElapsed
  \/ ProgSettle
  \/ \E i \in 1..MaxSolves : ProgContinue(i)
  \/ ProgNextStep
  \/ ProgPreviousStep
  \/ \E stepIndex \in -1..MaxJump : ProgJumpToStep(stepIndex)
  \/ ProgStop

ProgressiveSpec == ProgressiveInit /\ [][ProgressiveNext]_vars

\* C34: currentStep is never below 0 and never above the length of the steps; a nextStep,
\* previousStep or jumpToStep on an inactive solver, or one that would leave that range,
\* returns false and changes neither the board nor currentStep; and a startProgressive on
\* an active solver throws and changes nothing.
C34_CurrentStepInRange ==
  /\ 0 <= progressive.currentStep
  /\ progressive.currentStep <= Len(progressive.steps)

\* the call made in this step
callMade(name) == progressive'.calls # progressive.calls /\ progressive'.last.name = name

\* the call made in this step would leave the range 0..steps.length
leavesRange ==
  \/ callMade("nextStep") /\ progressive.currentStep >= Len(progressive.steps)
  \/ callMade("previousStep") /\ progressive.currentStep <= 0
  \/ /\ callMade("jumpToStep")
     /\ \/ progressive'.last.arg < 0
        \/ progressive'.last.arg > Len(progressive.steps)

\* C34, the moves that are refused: false is returned, board and currentStep stay
C34_RefusedMoveChangesNothing ==
  [][((callMade("nextStep") \/ callMade("previousStep") \/ callMade("jumpToStep"))
        /\ (~progressive.isActive \/ leavesRange))
       => /\ progressive'.last.returned = "false"
          /\ progressive'.board = progressive.board
          /\ progressive'.currentStep = progressive.currentStep]_vars

\* C34, startProgressive on an active solver: it throws, and nothing but the record of
\* the call changes
C34_StartOnActiveThrows ==
  [][(callMade("startProgressive") /\ progressive.isActive)
       => /\ progressive'.last.returned = "thrown"
          /\ progressive' = [progressive EXCEPT !.calls = progressive'.calls,
                                                !.overlapped = progressive'.overlapped,
                                                !.last = progressive'.last]
          /\ UNCHANGED solverVars]_vars

\* C34, the range as long as every startProgressive() returned before the next call
C34_InRangeWhenAwaited == ~progressive.overlapped => C34_CurrentStepInRange

\* the steps of a later startProgressive arrived after the solver was moved along the
\* steps of an earlier one
C34_Witness ==
  /\ progressive.isActive
  /\ progressive.last = returns("startProgressive", "void")
  /\ progressive.currentStep > Len(progressive.steps)
  /\ progressive.steps # <<>>

\* ---------------------------------------------------------------------------------------
\* WebAssemblySolver (solvers/WebAssemblySolver.ts) and the C++ PentominoSolver it loads
\* (wasm/pentomino_solver.cpp).  The catalog is that of the model: the C++ shapes and the
\* pieceTypes of convertWasmBoardToSolution are taken for L and P, in the order of the
\* source, and a board needs RequiredCells empty cells.

\* PENTOMINO_SHAPES: the cells of a piece as pairs (x, y)
PENTOMINO_SHAPES ==
  << <<Pt(0, 0), Pt(0, 1), Pt(0, 2), Pt(0, 3), Pt(1, 3)>>,
     <<Pt(0, 0), Pt(0, 1), Pt(1, 0), Pt(1, 1), Pt(1, 2)>> >>

\* the pieceTypes of convertWasmBoardToSolution: the type of piece id i - 1
wasmPieceTypes == <<"L", "P">>

\* the board values of the engine for an empty and for a blocked cell
wasmEmpty == -1
wasmBlocked == -2

\* operator< of std::pair<int, int>
pairLess(a, b) == a.x < b.x \/ (a.x = b.x /\ a.y < b.y)

\* std::sort of a vector of distinct pairs
RECURSIVE sortPairs(_)
sortPairs(S) ==
  IF S = {} THEN <<>>
  ELSE LET least == CHOOSE a \in S : \A b \in S : a = b \/ pairLess(a, b)
       IN <<least>> \o sortPairs(S \ {least})

\* normalize_shape: the minimum coordinates moved to the origin, the cells sorted
normalize_shape(shape) ==
  IF shape = <<>> THEN shape
  ELSE LET min_x == MinOf({shape[i].x : i \in DOMAIN shape})
           min_y == MinOf({shape[i].y : i \in DOMAIN shape})
       IN sortPairs({Pt(shape[i].x - min_x, shape[i].y - min_y) : i \in DOMAIN shape})

\* one of the two loops of generate_orientations: four times normalize, add if not
\* present, rotate (x, y) -> (y, -x)
RECURSIVE addOrientations(_, _, _)
addOrientations(orientations, current, rot) ==
  IF rot = 4 THEN orientations
  ELSE LET normal == normalize_shape(current)
           added == IF \E i \in DOMAIN orientations : orientations[i] = normal
                    THEN orientations ELSE Append(orientations, normal)
           rotated == [i \in DOMAIN normal |-> Pt(normal[i].y, -normal[i].x)]
       IN addOrientations(added, rotated, rot + 1)

\* generate_orientations: the rotations of the shape, then those of its reflection
\* (x, y) -> (-x, y)
generate_orientations(shape) ==
  addOrientations(addOrientations(<<>>, shape, 0),
                  [i \in DOMAIN shape |-> Pt(-shape[i].x, shape[i].y)], 0)

\* all_orientations, as the constructor fills it
all_orientations == [i \in DOMAIN PENTOMINO_SHAPES |-> generate_orientations(PENTOMINO_SHAPES[i])]

\* search_radius of solve_recursive
search_radius == 2

\* init_board(w, h, blocked_cells)
init_board(w, h, blocked_cells) ==
  [y \in 0..(h - 1) |->
     [x \in 0..(w - 1) |->
        IF \E i \in DOMAIN blocked_cells : blocked_cells[i] = Pt(x, y)
        THEN wasmBlocked ELSE wasmEmpty]]

wasmHeight(b) == Cardinality(DOMAIN b)
wasmWidth(b) == IF DOMAIN b = {} THEN 0 ELSE Cardinality(DOMAIN b[0])

\* the cells an orientation covers from (start_x, start_y)
orientationCells(orientation, start_x, start_y) ==
  {Pt(start_x + orientation[i].x, start_y + orientation[i].y) : i \in DOMAIN orientation}

can_place_piece(b, orientation, start_x, start_y) ==
  \A cell \in orientationCells(orientation, start_x, start_y) :
    /\ cell.x >= 0 /\ cell.x < wasmWidth(b)
    /\ cell.y >= 0 /\ cell.y < wasmHeight(b)
    /\ b[cell.y][cell.x] = wasmEmpty

\* place_piece with a piece id, remove_piece with wasmEmpty
mark_piece(b, orientation, start_x, start_y, value) ==
  [y \in DOMAIN b |->
     [x \in DOMAIN b[y] |->
        IF Pt(x, y) \in orientationCells(orientation, start_x, start_y)
        THEN value ELSE b[y][x]]]

\* find_first_empty: the first empty cell by rows, Pt(-1, -1) if there is none
find_first_empty(b) ==
  LET empties == {Pt(x, y) : x \in 0..(wasmWidth(b) - 1), y \in 0..(wasmHeight(b) - 1)}
                   \cap {c \in {Pt(x, y) : x \in 0..(wasmWidth(b) - 1),
                                           y \in 0..(wasmHeight(b) - 1)} :
                           b[c.y][c.x] = wasmEmpty}
  IN IF empties = {} THEN Pt(-1, -1)
     ELSE CHOOSE c \in empties :
            \A d \in empties : c = d \/ c.y < d.y \/ (c.y = d.y /\ c.x < d.x)

\* the clock of the engine: the deadline has passed from the entry of solve_recursive
\* with number expiry on; an expiry below 0 is a deadline that does not pass
deadlinePassed(st) == st.expiry >= 0 /\ st.calls > st.expiry

\* the window of the loops of solve_recursive around empty_cell: its first column and row
\* and its numbers of columns and rows
candidateWindow(b, empty_cell) ==
  [start_x |-> MaxOf({0, empty_cell.x - search_radius}),
   start_y |-> MaxOf({0, empty_cell.y - search_radius}),
   nx |-> MinOf({wasmWidth(b), empty_cell.x + search_radius + 1})
            - MaxOf({0, empty_cell.x - search_radius}),
   ny |-> MinOf({wasmHeight(b), empty_cell.y + search_radius + 1})
            - MaxOf({0, empty_cell.y - search_radius})]

\* candidate c of the three loops (orientations, y, x), counted from 0
candidateAt(orientations, win, c) ==
  [orientation |-> orientations[(c \div (win.nx * win.ny)) + 1],
   x |-> win.start_x + (c % win.nx),
   y |-> win.start_y + ((c % (win.nx * win.ny)) \div win.nx),
   c |-> c]

\* the candidates from k on that pass can_place_piece
fittingCandidates(b, orientations, win, k) ==
  {c \in k..(Len(orientations) * win.nx * win.ny - 1) :
     can_place_piece(b, candidateAt(orientations, win, c).orientation,
                     candidateAt(orientations, win, c).x, candidateAt(orientations, win, c).y)}

\* solve_recursive(piece_index) on the fields st of the engine, and the loops of its
\* body from candidate k on
RECURSIVE solve_recursive(_, _), tryCandidates(_, _, _, _), tryFitting(_, _, _, _)
RECURSIVE placeCandidate(_, _, _, _), afterPlacement(_, _, _, _)
solve_recursive(st0, piece_index) ==
  LET st == [st0 EXCEPT !.calls = @ + 1]
  IN IF deadlinePassed(st)
     THEN [found |-> FALSE, st |-> [st EXCEPT !.should_stop = TRUE]]
     ELSE IF st.should_stop THEN [found |-> FALSE, st |-> st]
     ELSE IF st.max_solutions > 0 /\ st.solutions_found >= st.max_solutions
     THEN [found |-> FALSE, st |-> [st EXCEPT !.should_stop = TRUE]]
     ELSE IF piece_index >= Len(PENTOMINO_SHAPES)
     THEN [found |-> TRUE, st |-> [st EXCEPT !.solutions_found = @ + 1]]
     ELSE IF find_first_empty(st.board).x = -1
     THEN [found |-> FALSE, st |-> [st EXCEPT !.steps_explored = @ + 1]]
     ELSE tryCandidates([st EXCEPT !.steps_explored = @ + 1], piece_index,
                        find_first_empty(st.board), 0)

tryCandidates(st, piece_index, empty_cell, k) ==
  tryFitting(st, piece_index, empty_cell,
             fittingCandidates(st.board, all_orientations[piece_index + 1],
                               candidateWindow(st.board, empty_cell), k))

\* the loops go on to the next candidate that passes can_place_piece, if there is one
tryFitting(st, piece_index, empty_cell, fitting) ==
  IF st.should_stop \/ fitting = {} THEN [found |-> FALSE, st |-> st]
  ELSE placeCandidate(st, piece_index, empty_cell,
                      candidateAt(all_orientations[piece_index + 1],
                                  candidateWindow(st.board, empty_cell), MinOf(fitting)))

\* place_piece and the recursive call
placeCandidate(st, piece_index, empty_cell, cand) ==
  afterPlacement(solve_recursive(
                   [st EXCEPT !.board = mark_piece(st.board, cand.orientation,
                                                   cand.x, cand.y, piece_index)],
                   piece_index + 1),
                 cand, piece_index, empty_cell)

\* what follows the recursive call in the loops: return true, or remove_piece and go on
afterPlacement(deeper, cand, piece_index, empty_cell) ==
  IF deeper.found THEN deeper
  ELSE tryCandidates([deeper.st EXCEPT
                        !.board = mark_piece(deeper.st.board, cand.orientation,
                                             cand.x, cand.y, wasmEmpty)],
                     piece_index, empty_cell, cand.c + 1)

\* a new PentominoSolver after init_board and set_config
newEngine(board, max_sols, expiry) ==
  [board |-> init_board(board.config.width, board.config.height, board.config.blockedCells),
   solutions_found |-> 0, max_solutions |-> max_sols, steps_explored |-> 0,
   should_stop |-> FALSE, calls |-> 0, expiry |-> expiry]

\* the number of empty cells the engine counts
wasmEmptyCells(b) ==
  Cardinality({c \in {Pt(x, y) : x \in 0..(wasmWidth(b) - 1), y \in 0..(wasmHeight(b) - 1)} :
                 b[c.y][c.x] = wasmEmpty})

\* the object solve() returns after the search, with the engine
engineReturn(searched) ==
  [st |-> searched.st,
   result |-> [success |-> TRUE, solutions_found |-> searched.st.solutions_found,
               steps_explored |-> searched.st.steps_explored, error |-> undefined]]

\* PentominoSolver::solve(): the engine after it and the object it returns
engineSolve(st) ==
  IF wasmEmptyCells(st.board) # RequiredCells
  THEN [st |-> st,
        result |-> [success |-> FALSE, solutions_found |-> 0, steps_explored |-> 0,
                    error |-> "Invalid board"]]
  ELSE engineReturn(solve_recursive(st, 0))

\* the cells of a wasm board that hold a value
cellsMarked(b, value) ==
  {c \in {Pt(x, y) : x \in 0..(wasmWidth(b) - 1), y \in 0..(wasmHeight(b) - 1)} :
     b[c.y][c.x] = value}

\* the loop of convertWasmBoardToSolution from piece id on
RECURSIVE wasmPlacements(_, _)
wasmPlacements(b, pieceId) ==
  IF pieceId >= Len(wasmPieceTypes) THEN <<>>
  ELSE LET cells == cellsMarked(b, pieceId)
       IN (IF cells = {} THEN <<>>
           ELSE <<[pieceType |-> wasmPieceTypes[pieceId + 1],
                   position |-> Pt(MinOf({c.x : c \in cells}), MinOf({c.y : c \in cells})),
                   variantIndex |-> 0]>>)
          \o wasmPlacements(b, pieceId + 1)

convertWasmBoardToSolution(b) ==
  [id |-> 1, placements |-> wasmPlacements(b, 0), steps |-> <<>>]

\* bound: the solve() calls on one WebAssemblySolver
MaxWasmCalls == 1

\* bound: the largest number of entries of solve_recursive after which a deadline passes
MaxExpiry == 2

\* the boards solve() is called with: 3 wide and 4 high with two blocked cells, or with
\* one cell blocked twice
WasmBoards ==
  {createBoard([width |-> 3, height |-> 4, blockedCells |-> <<pair[1], pair[2]>>]) :
     pair \in {p \in {Pt(x, y) : x \in 0..2, y \in 0..3}
                        \X {Pt(x, y) : x \in 0..2, y \in 0..3} :
                 p[1] = p[2] \/ pairLess(p[1], p[2])}}

WasmInit == SolverUnused /\ UtilIdle /\ AppIdle

\* solve(board): wasmReady is what initializeWasm() returns, expiry the course of the
\* engine's clock
WasmSolve(board, maxSolutions, wasmReady, expiry) ==
  /\ wasm.calls < MaxWasmCalls
  /\ IF ~wasmReady
     THEN wasm' = [board |-> wasm.board, passed |-> board, solutions |-> <<>>,
                   stepsExplored |-> 0,
                   result |-> resolved(FALSE, <<>>, 0, 0, "WebAssembly module not available"),
                   should_stop |-> wasm.should_stop, calls |-> wasm.calls + 1]
     ELSE \E solved \in {engineSolve(newEngine(board,
                                               IF maxSolutions # 0 THEN maxSolutions ELSE 1,
                                               expiry))} :
          \E sols \in {IF solved.result.success /\ solved.result.solutions_found > 0
                       THEN <<convertWasmBoardToSolution(solved.st.board)>>
                       ELSE <<>>} :
            wasm' = [board |-> solved.st.board, passed |-> board, solutions |-> sols,
                     stepsExplored |-> solved.result.steps_explored,
                     result |-> resolved(solved.result.success, sols, 0,
                                         solved.result.steps_explored, solved.result.error),
                     should_stop |-> solved.st.should_stop, calls |-> wasm.calls + 1]
  /\ UNCHANGED <<solverVars, utilVars, hook, searches, timers, progressive>>

\* stop(), after a solve() that loaded the module
WasmStop ==
  /\ wasm.board # <<>>
  /\ ~wasm.should_stop
  /\ wasm' = [wasm EXCEPT !.should_stop = TRUE]
  /\ UNCHANGED <<solverVars, utilVars, hook, searches, timers, progressive>>

WasmNext ==
  \/ \E board \in WasmBoards, maxSolutions \in 0..MaxSolutionsLimit, wasmReady \in BOOLEAN,
        expiry \in -1..MaxExpiry :
       WasmSolve(board, maxSolutions, wasmReady, expiry)
  \/ WasmStop

WasmSpec == WasmInit /\ [][WasmNext]_vars

\* solve() returned a solution
WasmSolved == wasm.result.status = "resolved" /\ wasm.result.solutions # <<>>

\* the piece id the engine marks the cells of a piece type with
wasmPieceId(type) == CHOOSE i \in 0..(Len(wasmPieceTypes) - 1) : wasmPieceTypes[i + 1] = type

\* C36: every placement of a solution that WebAssemblySolver.solve returns reproduces its
\* piece: the cells of getPentominoVariant(pieceType, variantIndex) moved by position are
\* the cells of the solved board that the engine marked with that piece, and the solution
\* is valid for the board passed.
C36_PlacementsReproduceBoard ==
  WasmSolved =>
    /\ \A i \in 1..Len(wasm.result.solutions[1].placements) :
         LET placement == wasm.result.solutions[1].placements[i]
         IN placementCells(placement) = cellsMarked(wasm.board, wasmPieceId(placement.pieceType))
    /\ ValidSolution(wasm.result.solutions[1], wasm.passed)

\* C36, the part that holds: the engine's marks tile the board, one piece of five cells
\* per id, and each placement names the type of its id and the upper left corner of the
\* bounding box of its cells
C36_MarksTileBoard ==
  WasmSolved =>
    /\ cellsMarked(wasm.board, wasmEmpty) = {}
    /\ Len(wasm.result.solutions[1].placements) = Len(wasmPieceTypes)
    /\ \A i \in 1..Len(wasmPieceTypes) :
         LET placement == wasm.result.solutions[1].placements[i]
             cells == cellsMarked(wasm.board, i - 1)
         IN /\ Cardinality(cells) = PieceCells
            /\ placement.pieceType = wasmPieceTypes[i]
            /\ placement.position = Pt(MinOf({c.x : c \in cells}), MinOf({c.y : c \in cells}))

\* a solution was returned whose engine board holds a piece in another orientation than
\* variant 0
C36_Witness ==
  /\ WasmSolved
  /\ \E i \in 1..Len(wasm.result.solutions[1].placements) :
       placementCells(wasm.result.solutions[1].placements[i])
         # cellsMarked(wasm.board,
                       wasmPieceId(wasm.result.solutions[1].placements[i].pieceType))

====
